---- MODULE Spec2Model ----
(***************************************************************************)
(* HammametGlow backend: GamificationService (awardPoints,                 *)
(* checkAndAwardBadges, processChallengeCompletion) over the Firestore     *)
(* collections users / badges / submissions and the Redis cache.           *)
(* Every await of the service is one step of a call; calls of different    *)
(* requests interleave at those steps.                                     *)
(* Further parts: getLeaderboard / getUserRank, the POST /api/auth/register *)
(* handler over Firebase Auth and the users collection, and the            *)
(* /api/challenges router with authMiddleware and requireRole.             *)
(* Further parts: POST /api/auth/login, POST /api/auth/logout and          *)
(* GET /api/auth/me over the user cache, the Next.js route middleware,     *)
(* the useAuthSync hook over the auth store, and the Socket.io server      *)
(* with its personal, challenge and leaderboard rooms.                     *)
(***************************************************************************)
EXTENDS Integers, Sequences, FiniteSets, TLC

\* ---------------------------------------------------------------- bounds
MaxCalls == 2       \* requests in flight at the same time
MaxAwards == 2      \* direct awardPoints invocations in one behaviour
MaxFlows == 2       \* checkAndAwardBadges / processChallengeCompletion invocations
MaxFaults == 1      \* storage / cache commands that fail in one behaviour
MaxSubAdds == 1     \* submissions created during one behaviour
MaxQueries == 3     \* getLeaderboard / getUserRank invocations in one behaviour
MaxRegs == 2        \* registration requests in one behaviour
MaxRegFaults == 2   \* Auth / Firestore / Redis commands that fail during the registrations
MaxReqs == 2        \* requests sent to the /api/challenges router in one behaviour
MaxSess == 3        \* login / logout / me requests and user deletions in one behaviour
MaxChanges == 3     \* Firebase auth-state changes the frontend sees in one behaviour
MaxSockets == 2     \* Socket.io connections in one behaviour

Users == {"u1", "u2"}
Calls == 1..MaxCalls

\* ------------------------------------------------- program constants
CHALLENGE_COMPLETION == 100
FIRST_CHALLENGE == 50
BADGE_BONUS == 50
PERFECT_SCORE == 95

\* points arguments of direct awardPoints calls (any integer is accepted)
AwardArgs == {-50, 0, 100}

\* BADGES that checkAndAwardBadges tests, in the order it tests them
BadgeOrder ==
  <<"first_steps", "explorer", "adventurer", "master_explorer",
    "photographer", "perfectionist">>

BadgeTypes == {BadgeOrder[i] : i \in 1..Len(BadgeOrder)}

\* scores a submission can carry
Scores == {80, 95}

VARIABLES
  users,       \* Firestore users/{uid}
  badges,      \* Firestore badges: number of grant documents per (user, type)
  subs,        \* Firestore submissions of each user, as the counts the service reads
  userCache,   \* Redis user:{uid}
  lbCache,     \* Redis leaderboard:global is set
  redisOn,     \* the redis client is configured
  proc,        \* the calls in flight: position and locals of each
  faults,      \* failed commands so far
  nAwards,     \* direct awardPoints invocations so far
  nFlows,      \* checkAndAwardBadges / processChallengeCompletion invocations so far
  nSubAdds,    \* submissions created so far
  ledger,      \* history: sum of the points of the awards written, per user
  awardsDone,  \* history: awardPoints calls returned normally, per user
  overlapped,  \* history: two awardPoints calls of this user overlapped
  quiet,       \* history: an evaluate of this user returned and nothing changed since
  query,       \* the getLeaderboard / getUserRank calls in flight and their results
  nQueries,    \* getLeaderboard / getUserRank invocations so far
  reg,         \* the POST /api/auth/register requests: position, body, response
  authUsers,   \* Firebase Auth: the account each registration request created, if any
  userDocs,    \* Firestore users/{uid} of the uids created by the registration requests
  regFaults,   \* failed Auth / Firestore / Redis commands of the registrations so far
  http,        \* the request travelling through the /api/challenges router
  nReqs,       \* requests received by the router so far
  order,       \* the order in which checkAndAwardBadges tests the badge types
  firstBonuses, \* history: first-challenge bonuses written, per user
  sess,        \* the login / logout / me requests in flight and their responses
  nSess,       \* login / logout / me requests and user deletions so far
  sessionCache, \* Redis session:{uid} is set
  mw,          \* the request the Next.js middleware answered last
  fbUser,      \* the frontend's Firebase auth state: the signed-in uid or "none"
  store,       \* the frontend's auth store (user, isAuthenticated, isLoading)
  cbs,         \* the onAuthStateChanged callbacks of useAuthSync
  sock,        \* the Socket.io sockets: handshake position, uid, rooms
  delivered    \* the event emitted in the last step and the sockets (uid, token) it reached

vars ==
  <<users, badges, subs, userCache, lbCache, redisOn, proc, faults, nAwards,
    nFlows, nSubAdds, ledger, awardsDone, overlapped, quiet,
    query, nQueries, reg, authUsers, userDocs, regFaults, http, nReqs,
    order, firstBonuses, sess, nSess, sessionCache, mw, fbUser, store, cbs, sock, delivered>>

\* the state of the service and its stores
gamVars ==
  <<users, badges, subs, userCache, lbCache, redisOn, proc, faults, nAwards,
    nFlows, nSubAdds, ledger, awardsDone, overlapped, quiet>>

\* the state of the leaderboard queries, of the registrations and of the router
boardVars == <<query, nQueries>>
regVars == <<reg, authUsers, userDocs, regFaults>>
httpVars == <<http, nReqs>>

\* the state of the auth routes, of the frontend and of the sockets
routeVars == <<sess, nSess, sessionCache>>
frontVars == <<mw, fbUser, store, cbs>>
sockVars == <<sock, delivered>>
webVars == <<routeVars, frontVars, sockVars>>
extRest == <<boardVars, regVars, httpVars, webVars, order>>
ext == <<extRest, firstBonuses>>

\* ------------------------------------------------------------ documents

NoUser == [exists |-> FALSE, points |-> 0, hasTotal |-> FALSE, totalPoints |-> 0, level |-> 0]

\* userData of POST /register: points 0, level 1, no totalPoints field
RegisteredUser ==
  [exists |-> TRUE, points |-> 0, hasTotal |-> FALSE, totalPoints |-> 0, level |-> 1]

NoCache == [present |-> FALSE, points |-> 0]

\* user.points || 0
PointsOf(doc) == doc.points

\* user.totalPoints || 0
TotalOf(doc) == IF doc.hasTotal THEN doc.totalPoints ELSE 0

\* calculateLevelFromPoints: level 1 up to 100, level 2 up to 300, level 3 above
LevelOf(total) ==
  IF total <= 100 THEN 1 ELSE IF total <= 300 THEN 2 ELSE 3

\* the counts of a user's submissions: all, approved, approved with score >= 95
NoSubs == [total |-> 0, approved |-> 0, perfect |-> 0]

SubsProfiles ==
  { NoSubs, [total |-> 1, approved |-> 1, perfect |-> 0] }


\* ---------------------------------------------------------------- calls

Idle ==
  [op |-> "idle", user |-> "u1", pc |-> "idle", stage |-> "-", pts |-> 0,
   rPoints |-> 0, rTotal |-> 0,
   earned |-> {}, completed |-> 0, perfect |-> 0, idx |-> 1,
   newBadges |-> <<>>, bonusAt |-> 0, result |-> <<>>, err |-> "",
   prevPoints |-> 0, prevTotal |-> 0, nWrites |-> 0, nInval |-> 0,
   granted |-> 0, paid |-> 0, clean |-> TRUE, afterQuiet |-> FALSE,
   before |-> {}, seen |-> 0]

AwardPcs == {"getUser", "updateUser", "invalUser", "invalLb"}
EvalPcs == {"evGetUser", "evGetBadges", "evGetSubs", "evAwardBadge", "evInval"}
Terminal == {"done", "failed"}

InAward(p) == p.pc \in AwardPcs
InEval(p) == p.pc \in EvalPcs

CanFail == faults < MaxFaults

TypeOK ==
  /\ \A u \in Users :
       /\ users[u].exists \in BOOLEAN
       /\ users[u].points \in Int
       /\ users[u].level \in Nat
       /\ \A b \in BadgeTypes : badges[u][b] \in Nat
  /\ \A c \in Calls :
       proc[c].pc \in {"idle", "cpGetSubs"} \cup AwardPcs \cup EvalPcs \cup Terminal
  /\ faults \in 0..MaxFaults
  /\ nAwards \in 0..MaxAwards
  /\ nFlows \in 0..MaxFlows

\* ---- leaderboard queries, registrations, router: the idle records ----

\* limit arguments of getLeaderboard (a count; 10 is the default)
Limits == {0, 1, 10}

NoQuery ==
  [op |-> "idle", pc |-> "idle", user |-> "u1", limit |-> 0, hit |-> FALSE,
   list |-> <<>>, rank |-> 0, totalUsers |-> 0, percentile |-> 0,
   failed |-> FALSE, err |-> ""]

RegIds == 1..MaxRegs
Emails == {"a@x.tn", "b@x.tn"}
Usernames == {"ana", "bob"}

NoReg == [pc |-> "idle", email |-> "", username |-> "", status |-> 0, cached |-> FALSE]

\* the Authorization header: absent, or a scheme prefix followed by the rest
NoHeader == [present |-> FALSE, scheme |-> "", rest |-> ""]

NoRequest ==
  [pc |-> "idle", route |-> "-", chain |-> <<>>, header |-> NoHeader, verify |-> "-",
   claim |-> "-", fault |-> "none", limited |-> "none",
   hasUser |-> FALSE, role |-> "-", status |-> 0, error |-> "",
   authNext |-> 0, authStatus |-> 0, authError |-> "",
   roleNext |-> 0, roleStatus |-> 0, ran |-> <<>>]

\* ---- auth routes, frontend, sockets: the idle records ----

\* a login / logout / me request: position, userData, response; floor is the
\* history of the points the returned awards had written when it arrived
NoSess ==
  [op |-> "idle", pc |-> "idle", user |-> "u1", hit |-> FALSE, points |-> 0,
   status |-> 0, code |-> "", floor |-> 0]

\* a path is the sequence of its lexemes: "/dashboard/x" is <<"/", "dashboard", "/", "x">>
NoMw ==
  [pc |-> "idle", path |-> <<>>, storage |-> "absent", token |-> "absent",
   outcome |-> "-", location |-> <<>>, redirect |-> <<>>]

\* the auth store after create(): user null, isAuthenticated false, isLoading false
NoStore == [user |-> "none", source |-> "-", isAuthenticated |-> FALSE, isLoading |-> FALSE]

ChangeIds == 1..MaxChanges
NoCallback == [pc |-> "idle", user |-> "none"]

SockIds == 1..MaxSockets
NoSocket == [pc |-> "closed", token |-> "none", uid |-> "-", rooms |-> {}]
NoEmit == [event |-> "-", room |-> "-", user |-> "-", to |-> {}]

InitWeb ==
  /\ sess = [c \in Calls |-> NoSess]
  /\ nSess = 0
  /\ sessionCache = [u \in Users |-> FALSE]
  /\ mw = NoMw
  /\ fbUser = "none"
  /\ store = NoStore
  /\ cbs = [i \in ChangeIds |-> NoCallback]
  /\ sock = [k \in SockIds |-> NoSocket]
  /\ delivered = NoEmit
  /\ firstBonuses = [u \in Users |-> 0]

InitParts ==
  /\ InitWeb
  /\ query = [c \in Calls |-> NoQuery]
  /\ nQueries = 0
  /\ reg = [r \in RegIds |-> NoReg]
  /\ authUsers = [r \in RegIds |-> ""]
  /\ userDocs = [r \in RegIds |-> ""]
  /\ regFaults = 0
  /\ http = NoRequest
  /\ nReqs = 0

InitExt ==
  /\ InitParts
  /\ order = BadgeOrder

Init ==
  /\ InitExt
  /\ redisOn \in BOOLEAN
  /\ users = [u \in Users |-> IF u = "u1" THEN RegisteredUser ELSE NoUser]
  /\ badges = [u \in Users |-> [b \in BadgeTypes |-> 0]]
  /\ subs \in { [u \in Users |-> IF u = "u1" THEN s ELSE NoSubs] : s \in SubsProfiles }
  /\ userCache = [u \in Users |->
       IF redisOn /\ u = "u1" THEN [present |-> TRUE, points |-> 0] ELSE NoCache]
  /\ lbCache = redisOn
  /\ proc = [c \in Calls |-> Idle]
  /\ faults = 0
  /\ nAwards = 0
  /\ nFlows = 0
  /\ nSubAdds = 0
  /\ ledger = [u \in Users |-> 0]
  /\ awardsDone = [u \in Users |-> 0]
  /\ overlapped = [u \in Users |-> FALSE]
  /\ quiet = [u \in Users |-> FALSE]

\* ---- history bookkeeping shared by the steps ----

\* An awardPoints call begins in this step (its getUser is issued).
EntersAward(c) == proc'[c].pc = "getUser" /\ proc[c].pc # "getUser"

\* overlapped: some call enters awardPoints for a user while another call is
\* inside awardPoints for the same user.
TrackOverlap ==
  overlapped' =
    [u \in Users |->
       overlapped[u] \/
       \E c \in Calls :
         /\ EntersAward(c)
         /\ proc'[c].user = u
         /\ \E d \in Calls \ {c} : InAward(proc[d]) /\ proc[d].user = u]

\* A change of u's points or submissions: running evaluations of u are no longer
\* "with nothing in between".
Touch(p, u) == IF p.user = u /\ InEval(p) THEN [p EXCEPT !.clean = FALSE] ELSE p

\* awardPoints(userId, points, reason) is entered: getUser is issued.
StartAward(p, points, stage) ==
  [p EXCEPT !.pc = "getUser", !.stage = stage, !.pts = points,
            !.prevPoints = PointsOf(users[p.user]),
            !.prevTotal = TotalOf(users[p.user])]

\* checkAndAwardBadges(userId) is entered: getUser is issued.
StartEval(p) ==
  [p EXCEPT !.pc = "evGetUser", !.stage = "eval", !.earned = {}, !.idx = 1,
            !.newBadges = <<>>, !.clean = TRUE, !.afterQuiet = quiet[p.user],
            !.before = {b \in BadgeTypes : badges[p.user][b] > 0}]

\* ---- GamificationService.awardPoints ----

\* a bug: a missing user document is taken for a user
Missing_Never(doc) == FALSE

\* !user, for the result of FirebaseService.getUser (null when !doc.exists)
Missing(doc) == ~doc.exists

\* a bug: negative amounts are clamped to zero
AwardUpdate_Clamped(p) ==
  LET amount == IF p.pts < 0 THEN 0 ELSE p.pts
  IN [points |-> p.rPoints + amount, totalPoints |-> p.rTotal + amount]

\* a bug: totalPoints is set to the amount instead of being increased by it
AwardUpdate_Overwrite(p) ==
  [points |-> p.rPoints + p.pts, totalPoints |-> p.pts]

\* a bug: only points is increased, totalPoints is written back as read
AwardUpdate_PointsOnly(p) ==
  [points |-> p.rPoints + p.pts, totalPoints |-> p.rTotal]

\* the update object of awardPoints
AwardUpdate(p) ==
  [points |-> p.rPoints + p.pts, totalPoints |-> p.rTotal + p.pts]

\* a bug: the two fields are written one after the other and the second write fails
UpdateUser_Partial(doc, upd, ok) ==
  IF ok
    THEN [doc EXCEPT !.points = upd.points, !.hasTotal = TRUE,
                     !.totalPoints = upd.totalPoints]
    ELSE [doc EXCEPT !.points = upd.points]

\* FirebaseService.updateUser: one document update; a failed update changes nothing
UpdateUser(doc, upd, ok) ==
  IF ok
    THEN [doc EXCEPT !.points = upd.points, !.hasTotal = TRUE,
                     !.totalPoints = upd.totalPoints]
    ELSE doc

\* CacheService.del: nothing without redis; a failing command is swallowed
CacheDel(entry, ok) == IF redisOn /\ ok THEN NoCache ELSE entry

\* a request has ended: its locals are gone, what it reported and did remains
Ended(p, pc, result, e) ==
  [Idle EXCEPT !.op = p.op, !.user = p.user, !.pc = pc, !.result = result, !.err = e,
               !.nWrites = p.nWrites, !.nInval = p.nInval, !.granted = p.granted,
               !.paid = p.paid, !.clean = p.clean, !.afterQuiet = p.afterQuiet]

\* the catch of awardPoints rethrows; processChallengeCompletion rethrows too
Fail(p, e) == Ended(p, "failed", <<>>, e)


\* ---- GamificationService.checkAndAwardBadges: the criteria ----

\* the condition tested for badge b on the counts read by the call
Criterion(b, completed, perfect) ==
  CASE b = "first_steps" -> completed >= 1
    [] b = "explorer" -> completed >= 5
    [] b = "adventurer" -> completed >= 10
    [] b = "master_explorer" -> completed >= 25
    [] b = "photographer" -> completed >= 10
    [] b = "perfectionist" -> perfect >= 5

\* a bug: a badge is granted only once the badge tested before it is held
ShouldGrant_Chained(p, i) ==
  /\ Criterion(order[i], p.completed, p.perfect)
  /\ order[i] \notin p.earned
  /\ i > 1 => order[i - 1] \in p.earned \cup {p.newBadges[k] : k \in 1..Len(p.newBadges)}

\* criterion met and !earnedBadgeTypes.includes(b)
ShouldGrant(p, i) ==
  /\ Criterion(order[i], p.completed, p.perfect)
  /\ order[i] \notin p.earned

SetMin(S) == CHOOSE x \in S : \A y \in S : x <= y

\* ---- what a call does next when an inner call returns ----

\* checkAndAwardBadges returns nb: to the caller of evaluate, or into the bonus
\* loop of processChallengeCompletion
EvReturn(p, nb) ==
  IF p.op = "evaluate" \/ nb = <<>>
    THEN Ended(p, "done", nb, "")
    ELSE StartAward([p EXCEPT !.result = nb, !.bonusAt = 1, !.earned = {},
                              !.completed = 0, !.perfect = 0, !.idx = 1,
                              !.newBadges = <<>>],
                    BADGE_BONUS, "bonus")

\* after the tests: invalidate the user cache if something was granted, then return
EvFinish(p) ==
  IF p.newBadges # <<>> THEN [p EXCEPT !.pc = "evInval"] ELSE EvReturn(p, p.newBadges)

\* run the tests from index `from` up to the next awardBadge that has to be awaited
NextBadge(p, from) ==
  LET cand == {i \in from..Len(order) : ShouldGrant(p, i)}
  IN IF cand = {} THEN EvFinish(p)
     ELSE [p EXCEPT !.pc = "evAwardBadge", !.idx = SetMin(cand)]

\* awardPoints returned normally
AfterAward(p) ==
  LET q == [p EXCEPT !.pts = 0, !.rPoints = 0, !.rTotal = 0,
                     !.prevPoints = 0, !.prevTotal = 0] IN
  CASE p.op = "award" -> Ended(p, "done", <<>>, "")
    [] p.op = "complete" /\ p.stage = "base" -> [q EXCEPT !.pc = "cpGetSubs"]
    [] p.op = "complete" /\ p.stage = "first" -> StartEval(q)
    [] p.op = "complete" /\ p.stage = "bonus" ->
         IF p.bonusAt < Len(p.result)
           THEN StartAward([q EXCEPT !.bonusAt = @ + 1], BADGE_BONUS, "bonus")
           ELSE Ended(p, "done", p.result, "")

\* an evaluation of user u returns in this step
ReturnsEval(c) == InEval(proc[c]) /\ ~InEval(proc'[c])

TrackQuiet ==
  quiet' =
    [u \in Users |->
       IF \E c \in Calls : ReturnsEval(c) /\ proc[c].user = u
         THEN \A c \in Calls : (ReturnsEval(c) /\ proc[c].user = u) => proc[c].clean
         ELSE quiet[u]]

\* the outcomes a storage command can have in this state
Outcomes == IF CanFail THEN BOOLEAN ELSE {TRUE}
CacheOutcomes == IF CanFail /\ redisOn THEN BOOLEAN ELSE {TRUE}
Count(ok) == faults' = IF ok THEN faults ELSE faults + 1

\* ---------------------------------------------------------- invocations

\* a slot is free before its first request and once its request has ended; a new
\* request takes the lowest free slot
Free(p) == p.pc \in {"idle", "done", "failed"}

FreeSlot(c) ==
  /\ Free(proc[c])
  /\ \A d \in Calls : d < c => ~Free(proc[d])

InvokeAward(c, u, points) ==
  /\ FreeSlot(c)
  /\ nAwards < MaxAwards
  /\ proc' = [proc EXCEPT ![c] =
                StartAward([Idle EXCEPT !.op = "award", !.user = u], points, "-")]
  /\ nAwards' = nAwards + 1
  /\ TrackOverlap
  /\ UNCHANGED <<ext, users, badges, subs, userCache, lbCache, redisOn, faults, nFlows, nSubAdds,
                 ledger, awardsDone, quiet>>

InvokeEvaluate(c, u) ==
  /\ FreeSlot(c)
  /\ nFlows < MaxFlows
  /\ proc' = [proc EXCEPT ![c] = StartEval([Idle EXCEPT !.op = "evaluate", !.user = u])]
  /\ nFlows' = nFlows + 1
  /\ UNCHANGED <<ext, users, badges, subs, userCache, lbCache, redisOn, faults, nAwards, nSubAdds,
                 ledger, awardsDone, overlapped, quiet>>

\* processChallengeCompletion(userId, challengeId, submissionId): base points first
InvokeComplete(c, u) ==
  /\ FreeSlot(c)
  /\ nFlows < MaxFlows
  /\ proc' = [proc EXCEPT ![c] =
                StartAward([Idle EXCEPT !.op = "complete", !.user = u],
                           CHALLENGE_COMPLETION, "base")]
  /\ nFlows' = nFlows + 1
  /\ TrackOverlap
  /\ UNCHANGED <<ext, users, badges, subs, userCache, lbCache, redisOn, faults, nAwards, nSubAdds,
                 ledger, awardsDone, quiet>>

\* ------------------------------------------------- awardPoints, step by step

\* const user = await FirebaseService.getUser(userId); if (!user) throw
AwardGetUser(c) ==
  LET p == proc[c] IN
  /\ p.pc = "getUser"
  /\ \E ok \in Outcomes :
       /\ Count(ok)
       /\ proc' = [proc EXCEPT ![c] =
            IF ~ok THEN Fail(p, "ReadError")
            ELSE IF Missing(users[p.user]) THEN Fail(p, "User not found")
            ELSE [p EXCEPT !.pc = "updateUser",
                           !.rPoints = PointsOf(users[p.user]),
                           !.rTotal = TotalOf(users[p.user])]]
  /\ UNCHANGED <<ext, users, badges, subs, userCache, lbCache, redisOn, nAwards, nFlows, nSubAdds,
                 ledger, awardsDone, overlapped, quiet>>

\* await FirebaseService.updateUser(userId, {points, totalPoints})
AwardUpdateUser(c) ==
  LET p == proc[c] IN
  /\ p.pc = "updateUser"
  /\ \E ok \in Outcomes :
       /\ Count(ok)
       /\ users' = [users EXCEPT ![p.user] = UpdateUser(@, AwardUpdate(p), ok)]
       /\ proc' = [d \in Calls |->
            IF d = c
              THEN IF ok
                     THEN [p EXCEPT !.pc = "invalUser", !.nWrites = @ + 1,
                                    !.paid = IF p.stage = "bonus" THEN @ + 1 ELSE @]
                     ELSE Fail(p, "WriteError")
              ELSE IF ok THEN Touch(proc[d], p.user) ELSE proc[d]]
       /\ ledger' = [ledger EXCEPT ![p.user] = IF ok THEN @ + p.pts ELSE @]
       /\ firstBonuses' = [firstBonuses EXCEPT ![p.user] =
            IF ok /\ p.stage = "first" THEN @ + 1 ELSE @]
       /\ quiet' = [quiet EXCEPT ![p.user] = IF ok THEN FALSE ELSE @]
  /\ UNCHANGED <<extRest, badges, subs, userCache, lbCache, redisOn, nAwards, nFlows, nSubAdds,
                 awardsDone, overlapped>>

\* await CacheService.invalidateUserCache(userId)
AwardInvalUser(c) ==
  LET p == proc[c] IN
  /\ p.pc = "invalUser"
  /\ \E ok \in CacheOutcomes :
       /\ Count(ok)
       /\ userCache' = [userCache EXCEPT ![p.user] = CacheDel(@, ok)]
  /\ proc' = [proc EXCEPT ![c] = [p EXCEPT !.pc = "invalLb", !.nInval = @ + 1]]
  /\ UNCHANGED <<ext, users, badges, subs, lbCache, redisOn, nAwards, nFlows, nSubAdds,
                 ledger, awardsDone, overlapped, quiet>>

\* await CacheService.invalidateLeaderboardCache(); awardPoints returns
AwardInvalLb(c) ==
  LET p == proc[c] IN
  /\ p.pc = "invalLb"
  /\ \E ok \in CacheOutcomes :
       /\ Count(ok)
       /\ lbCache' = IF redisOn /\ ok THEN FALSE ELSE lbCache
  /\ proc' = [proc EXCEPT ![c] = AfterAward([p EXCEPT !.nInval = @ + 1])]
  /\ awardsDone' = [awardsDone EXCEPT ![p.user] = @ + 1]
  /\ TrackOverlap
  /\ UNCHANGED <<ext, users, badges, subs, userCache, redisOn, nAwards, nFlows, nSubAdds, ledger, quiet>>


\* ----------------------------------------- checkAndAwardBadges, step by step
\* Every throw inside is caught by the method's catch, which returns [].

\* a bug: the evaluation takes the user from the cached copy when there is one
GetUser_Cached(u) ==
  IF userCache[u].present
    THEN [users[u] EXCEPT !.exists = TRUE, !.points = userCache[u].points,
                          !.hasTotal = TRUE, !.totalPoints = userCache[u].points]
    ELSE users[u]

\* FirebaseService.getUser(userId): the users document as Firestore holds it
GetUser(u) == users[u]

\* const user = await FirebaseService.getUser(userId); if (!user) return []
\* seen: the totalPoints of the document this read returned
EvGetUser(c) ==
  LET p == proc[c] IN
  /\ p.pc = "evGetUser"
  /\ \E ok \in Outcomes :
       /\ Count(ok)
       /\ proc' = [proc EXCEPT ![c] =
            IF ~ok \/ Missing(GetUser(p.user)) THEN EvReturn(p, <<>>)
            ELSE [p EXCEPT !.pc = "evGetBadges", !.seen = TotalOf(GetUser(p.user))]]
  /\ TrackQuiet
  /\ TrackOverlap
  /\ UNCHANGED <<ext, users, badges, subs, userCache, lbCache, redisOn, nAwards, nFlows, nSubAdds,
                 ledger, awardsDone>>

\* const userBadges = await FirebaseService.getUserBadges(userId)
EvGetBadges(c) ==
  LET p == proc[c] IN
  /\ p.pc = "evGetBadges"
  /\ \E ok \in Outcomes :
       /\ Count(ok)
       /\ proc' = [proc EXCEPT ![c] =
            IF ~ok THEN EvReturn(p, <<>>)
            ELSE [p EXCEPT !.pc = "evGetSubs", !.seen = 0,
                           !.earned = {b \in BadgeTypes : badges[p.user][b] > 0}]]
  /\ TrackQuiet
  /\ TrackOverlap
  /\ UNCHANGED <<ext, users, badges, subs, userCache, lbCache, redisOn, nAwards, nFlows, nSubAdds,
                 ledger, awardsDone>>

\* const submissions = await FirebaseService.getUserSubmissions(userId), then the
\* tests up to the first awardBadge
EvGetSubs(c) ==
  LET p == proc[c] IN
  /\ p.pc = "evGetSubs"
  /\ \E ok \in Outcomes :
       /\ Count(ok)
       /\ proc' = [proc EXCEPT ![c] =
            IF ~ok THEN EvReturn(p, <<>>)
            ELSE NextBadge([p EXCEPT !.completed = subs[p.user].approved,
                                     !.perfect = subs[p.user].perfect], 1)]
  /\ TrackQuiet
  /\ TrackOverlap
  /\ UNCHANGED <<ext, users, badges, subs, userCache, lbCache, redisOn, nAwards, nFlows, nSubAdds,
                 ledger, awardsDone>>

\* FirebaseService.awardBadge -> createBadge: collection('badges').add(...)
CreateBadge(grants, b, ok) == IF ok THEN [grants EXCEPT ![b] = @ + 1] ELSE grants

\* await FirebaseService.awardBadge(userId, b); newBadges.push(b); then the tests
\* up to the next awardBadge
EvAwardBadge(c) ==
  LET p == proc[c]
      b == order[p.idx] IN
  /\ p.pc = "evAwardBadge"
  /\ \E ok \in Outcomes :
       /\ Count(ok)
       /\ badges' = [badges EXCEPT ![p.user] = CreateBadge(@, b, ok)]
       /\ proc' = [proc EXCEPT ![c] =
            IF ~ok THEN EvReturn(p, <<>>)
            ELSE NextBadge([p EXCEPT !.newBadges = Append(@, b), !.granted = @ + 1,
                                     !.nWrites = @ + 1], p.idx + 1)]
  /\ TrackQuiet
  /\ TrackOverlap
  /\ UNCHANGED <<ext, users, subs, userCache, lbCache, redisOn, nAwards, nFlows, nSubAdds,
                 ledger, awardsDone>>

\* if (newBadges.length > 0) await CacheService.invalidateUserCache(userId); return
EvInval(c) ==
  LET p == proc[c] IN
  /\ p.pc = "evInval"
  /\ \E ok \in CacheOutcomes :
       /\ Count(ok)
       /\ userCache' = [userCache EXCEPT ![p.user] = CacheDel(@, ok)]
  /\ proc' = [proc EXCEPT ![c] = EvReturn([p EXCEPT !.nInval = @ + 1], p.newBadges)]
  /\ TrackQuiet
  /\ TrackOverlap
  /\ UNCHANGED <<ext, users, badges, subs, lbCache, redisOn, nAwards, nFlows, nSubAdds,
                 ledger, awardsDone>>

\* ------------------------------------ processChallengeCompletion, its own step

\* const submissions = await FirebaseService.getUserSubmissions(userId);
\* if (submissions.length === 1) awardPoints(FIRST_CHALLENGE); then checkAndAwardBadges
\* a bug: the first-challenge bonus is never given
IsFirstChallenge_Never(s) == FALSE

\* submissions.length === 1
IsFirstChallenge(s) == s.total = 1

CpGetSubs(c) ==
  LET p == proc[c] IN
  /\ p.pc = "cpGetSubs"
  /\ \E ok \in Outcomes :
       /\ Count(ok)
       /\ proc' = [proc EXCEPT ![c] =
            IF ~ok THEN Fail(p, "ReadError")
            ELSE IF IsFirstChallenge(subs[p.user]) THEN StartAward(p, FIRST_CHALLENGE, "first")
            ELSE StartEval(p)]
  /\ TrackOverlap
  /\ UNCHANGED <<ext, users, badges, subs, userCache, lbCache, redisOn, nAwards, nFlows, nSubAdds,
                 ledger, awardsDone, quiet>>

\* ------------------------------------------------------------ environment

\* FirebaseService.createSubmission: a submission of user u appears
AddSubmission(u, status, score) ==
  /\ nSubAdds < MaxSubAdds
  /\ users[u].exists
  /\ nSubAdds' = nSubAdds + 1
  /\ subs' = [subs EXCEPT ![u] =
       [total |-> @.total + 1,
        approved |-> @.approved + (IF status = "approved" THEN 1 ELSE 0),
        perfect |-> @.perfect +
          (IF status = "approved" /\ score >= PERFECT_SCORE THEN 1 ELSE 0)]]
  /\ proc' = [d \in Calls |-> Touch(proc[d], u)]
  /\ quiet' = [quiet EXCEPT ![u] = FALSE]
  /\ UNCHANGED <<ext, users, badges, userCache, lbCache, redisOn, faults, nAwards, nFlows,
                 ledger, awardsDone, overlapped>>

\* POST /api/auth/register: the user document is set and cached
Register(u) ==
  /\ ~users[u].exists
  /\ users' = [users EXCEPT ![u] = RegisteredUser]
  /\ userCache' = [userCache EXCEPT ![u] =
       IF redisOn THEN [present |-> TRUE, points |-> 0] ELSE @]
  /\ UNCHANGED <<ext, badges, subs, lbCache, redisOn, proc, faults, nAwards, nFlows, nSubAdds,
                 ledger, awardsDone, overlapped, quiet>>

\* ---------------------------------------------------------- specification

\* the steps of awardPoints, whoever called it
AwardStep ==
  \/ \E c \in Calls : AwardGetUser(c)
  \/ \E c \in Calls : AwardUpdateUser(c)
  \/ \E c \in Calls : AwardInvalUser(c)
  \/ \E c \in Calls : AwardInvalLb(c)

\* the steps of checkAndAwardBadges and processChallengeCompletion
FlowStep ==
  \/ \E c \in Calls : EvGetUser(c)
  \/ \E c \in Calls : EvGetBadges(c)
  \/ \E c \in Calls : EvGetSubs(c)
  \/ \E c \in Calls : EvAwardBadge(c)
  \/ \E c \in Calls : EvInval(c)
  \/ \E c \in Calls : CpGetSubs(c)

Submit ==
  \E u \in Users, status \in {"approved", "pending"}, score \in Scores :
    AddSubmission(u, status, score)

Next ==
  \/ \E c \in Calls, u \in Users, points \in AwardArgs : InvokeAward(c, u, points)
  \/ \E c \in Calls, u \in Users : InvokeEvaluate(c, u)
  \/ \E c \in Calls, u \in Users : InvokeComplete(c, u)
  \/ AwardStep
  \/ FlowStep
  \/ Submit
  \/ \E u \in Users : Register(u)

Spec == Init /\ [][Next]_vars

\* Requests that call awardPoints directly, for registered and unregistered users.
NextAward ==
  \/ \E c \in Calls, u \in Users, points \in AwardArgs : InvokeAward(c, u, points)
  \/ AwardStep
  \/ \E u \in Users : Register(u)

\* awardPoints reads no submissions: the award requests start from a user without any
InitAward == Init /\ subs["u1"] = NoSubs

SpecAward == InitAward /\ [][NextAward]_vars

\* Requests that evaluate badges or process a challenge completion.
NextFlow ==
  \/ \E c \in Calls, u \in Users : InvokeEvaluate(c, u)
  \/ \E c \in Calls, u \in Users : InvokeComplete(c, u)
  \/ AwardStep
  \/ FlowStep
  \/ Submit
  \/ \E u \in Users : Register(u)

SpecFlow == Init /\ [][NextFlow]_vars


\* ------------------------------------------------------------------ claims

\* no call is inside awardPoints for user u
NoAwardRunning(u) == \A c \in Calls : ~(InAward(proc[c]) /\ proc[c].user = u)

\* C1: concurrent awardPoints calls for one user serialize: once the calls have
\* completed, the user's points and totalPoints are the initial value (0 at
\* registration) plus the amounts of all the awards written; no update is lost.
C1_NoLostUpdate ==
  \A u \in Users :
    (users[u].exists /\ NoAwardRunning(u)) =>
      /\ TotalOf(users[u]) = ledger[u]
      /\ PointsOf(users[u]) = ledger[u]

\* C2: when the awardPoints calls of a user never overlapped each other, then
\* after the completed ones the user's totalPoints is the initial value plus the
\* sum of their amounts, however the calls of other users were interleaved.
C2_SumOfAwards ==
  \A u \in Users :
    (users[u].exists /\ ~overlapped[u] /\ NoAwardRunning(u)) =>
      TotalOf(users[u]) = ledger[u]

\* C2 witness: an award of u1 has completed with its amount in the total, while an
\* award of the registered user u2 is between its read and its write.
C2_Witness ==
  /\ awardsDone["u1"] >= 1
  /\ ~overlapped["u1"]
  /\ NoAwardRunning("u1")
  /\ ledger["u1"] = 100
  /\ TotalOf(users["u1"]) = 100
  /\ \E c \in Calls : proc[c].user = "u2" /\ proc[c].pc = "updateUser"

\* C3: at most one badge grant exists for each (user, badge type), in every state.
C3_NoDuplicateBadges ==
  \A u \in Users : \A b \in BadgeTypes : badges[u][b] <= 1

\* C4: an evaluate that was called after an evaluate of the same user returned,
\* with no award and no change of the user's submissions since that one was
\* called, returns the empty list and creates no grant.
C4_EvaluateIdempotent ==
  \A c \in Calls :
    (proc[c].op = "evaluate" /\ proc[c].pc = "done" /\ proc[c].afterQuiet /\ proc[c].clean) =>
      /\ proc[c].result = <<>>
      /\ proc[c].granted = 0

\* C5: when processChallengeCompletion has ended, normally or with an error, every
\* badge grant it created has had its bonus written to the user.
C5_NoBadgeWithoutReward ==
  \A c \in Calls :
    (proc[c].op = "complete" /\ proc[c].pc \in Terminal) =>
      proc[c].paid = proc[c].granted

\* C6: an awardPoints call that no other award of the same user overlaps leaves,
\* once its update is written, points and totalPoints at their values before the
\* call plus the amount, whatever the sign of the amount.
C6_AwardAddsPoints ==
  \A c \in Calls :
    (proc[c].pc \in {"invalUser", "invalLb"} /\ ~overlapped[proc[c].user]) =>
      /\ TotalOf(users[proc[c].user]) = proc[c].prevTotal + proc[c].pts
      /\ PointsOf(users[proc[c].user]) = proc[c].prevPoints + proc[c].pts

\* C6 witness: a negative award written on top of an earlier total.
C6_Witness ==
  \E c \in Calls :
    /\ proc[c].op = "award"
    /\ proc[c].pc = "invalUser"
    /\ ~overlapped[proc[c].user]
    /\ proc[c].pts = -50
    /\ proc[c].prevTotal = 100
    /\ TotalOf(users[proc[c].user]) = 50

\* C7: awardPoints for a user without a document: when its read answers, the call
\* fails with "User not found" in that step, with no write to users or badges and
\* no change of the caches; a call that failed so has written and invalidated nothing.
C7_UserNotFound ==
  [][\A c \in Calls :
       (/\ proc[c].pc = "getUser"
        /\ ~users[proc[c].user].exists
        /\ proc'[c] # proc[c]
        /\ faults' = faults) =>
         /\ proc'[c].pc = "failed"
         /\ proc'[c].err = "User not found"
         /\ proc'[c].nWrites = 0
         /\ proc'[c].nInval = 0
         /\ UNCHANGED <<ext, users, badges, userCache, lbCache>>]_vars

\* C7 witness: an award failed with "User not found" while another user has points
\* and the caches are filled.
C7_Witness ==
  \E c \in Calls :
    /\ proc[c].op = "award"
    /\ proc[c].err = "User not found"
    /\ ~users[proc[c].user].exists
    /\ users["u1"].points = 100
    /\ lbCache

\* C8: when the update of awardPoints fails, the call fails with the write error
\* and the users collection is as before: neither points nor totalPoints changed.
C8_WriteFailureAtomic ==
  [][\A c \in Calls :
       (/\ proc[c].pc = "updateUser"
        /\ proc'[c] # proc[c]
        /\ faults' = faults + 1) =>
         /\ proc'[c].pc = "failed"
         /\ proc'[c].err = "WriteError"
         /\ users' = users]_vars

\* C8 witness: an award of a nonzero amount failed at its write, after an earlier
\* award of the same user, and the stored total is that of the earlier award.
C8_Witness ==
  \E c \in Calls :
    /\ proc[c].op = "award"
    /\ proc[c].err = "WriteError"
    /\ awardsDone[proc[c].user] = 1
    /\ ledger[proc[c].user] = 100
    /\ TotalOf(users[proc[c].user]) = 100
    /\ PointsOf(users[proc[c].user]) = 100

\* C9: the stored totalPoints of a user never decreases.
C9_TotalNeverDecreases ==
  [][\A u \in Users :
       users[u].exists => TotalOf(users'[u]) >= TotalOf(users[u])]_vars

\* C10: the stored level of a user is >= 1 and is the level derived from the
\* user's current totalPoints.
C10_LevelFromTotal ==
  \A u \in Users :
    users[u].exists =>
      /\ users[u].level >= 1
      /\ users[u].level = LevelOf(TotalOf(users[u]))

\* ================================================================
\* processChallengeCompletion of a user's first submission
\* ================================================================

OneApproved == [total |-> 1, approved |-> 1, perfect |-> 0]

\* the user's first submission, approved, is on record when the completion is processed
InitFirst == Init /\ subs["u1"] = OneApproved

\* processChallengeCompletion is called once for each submission of the user
CompleteSubmission(c, u) ==
  /\ nFlows < subs[u].total
  /\ InvokeComplete(c, u)

NextFirst ==
  \/ \E c \in Calls, u \in Users : CompleteSubmission(c, u)
  \/ AwardStep
  \/ FlowStep
  \/ \E u \in Users : Register(u)

SpecFirst == InitFirst /\ [][NextFirst]_vars

\* call c is a finished processChallengeCompletion that granted a badge, the user has
\* exactly one submission, and the awards of this call are the only awards the user
\* ever received (so the user started at 0)
FirstCompletion(c) ==
  LET p == proc[c] IN
  /\ p.op = "complete"
  /\ p.pc = "done"
  /\ p.result # <<>>
  /\ subs[p.user].total = 1
  /\ awardsDone[p.user] = p.nWrites - p.granted
  /\ NoAwardRunning(p.user)

\* C11 (as stated): for a user starting at 0 points, processing the first challenge
\* completion with the first-completion badge granted leaves the total at 150.
C11_TotalIs150 ==
  \A c \in Calls :
    FirstCompletion(c) => TotalOf(users[proc[c].user]) = 150

\* C11 (amended): for a user starting at 0 points with one submission on record,
\* processing the completion with the first_steps badge granted leaves points and
\* total at 200: 100 base, 50 first-challenge bonus, 50 bonus for the badge.
C11_TotalIs200 ==
  \A c \in Calls :
    FirstCompletion(c) =>
      /\ proc[c].result = <<"first_steps">>
      /\ TotalOf(users[proc[c].user]) =
           CHALLENGE_COMPLETION + FIRST_CHALLENGE + BADGE_BONUS
      /\ TotalOf(users[proc[c].user]) = 200
      /\ PointsOf(users[proc[c].user]) = 200

\* C11 witness: a completion of u1 finished with first_steps granted and three awards
\* written, no other award of u1 ever made.
C11_Witness ==
  \E c \in Calls :
    /\ FirstCompletion(c)
    /\ proc[c].user = "u1"
    /\ proc[c].nWrites = 4
    /\ badges["u1"]["first_steps"] = 1

\* ================================================================
\* getLeaderboard and getUserRank
\* ================================================================

\* a bug: the list computed on a cache miss is seeded with sample rows
LeaderboardQuery_Seeded(us) == <<"sample1", "sample2">>

\* const leaderboard: any[] = [] -- the query for the top users is not made
LeaderboardQuery(us) == <<>>

\* the value under leaderboard:global when the key is set: the list handed to
\* cacheLeaderboard, which is always the empty one
CachedList == <<>>

\* list.slice(0, limit) for a limit >= 0
Slice(list, limit) ==
  SubSeq(list, 1, IF limit < Len(list) THEN limit ELSE Len(list))

\* the placeholder result of getUserRank
RankResult == [rank |-> 1, totalUsers |-> 100, percentile |-> 99]

FreeQ(q) == q.pc \in {"idle", "done"}

FreeQuerySlot(c) ==
  /\ FreeQ(query[c])
  /\ \A d \in Calls : d < c => ~FreeQ(query[d])

\* getLeaderboard(limit) is entered: getCachedLeaderboard('global') is issued
InvokeLeaderboard(c, limit) ==
  /\ FreeQuerySlot(c)
  /\ nQueries < MaxQueries
  /\ query' = [query EXCEPT ![c] =
       [NoQuery EXCEPT !.op = "leaderboard", !.pc = "lbGet", !.limit = limit]]
  /\ nQueries' = nQueries + 1
  /\ UNCHANGED <<webVars, order, firstBonuses, gamVars, regVars, httpVars>>

\* const cached = await CacheService.getCachedLeaderboard('global');
\* if (cached) return cached.slice(0, limit)
\* CacheService.get gives null without redis, on a missing key and on a failed command
LbGetCached(c) ==
  LET q == query[c] IN
  /\ q.pc = "lbGet"
  /\ \E ok \in CacheOutcomes :
       /\ Count(ok)
       /\ query' = [query EXCEPT ![c] =
            IF redisOn /\ ok /\ lbCache
              THEN [q EXCEPT !.pc = "done", !.hit = TRUE,
                             !.list = Slice(CachedList, q.limit)]
              ELSE [q EXCEPT !.pc = "lbSet", !.list = LeaderboardQuery(users)]]
  /\ UNCHANGED <<users, badges, subs, userCache, lbCache, redisOn, proc, nAwards, nFlows,
                 nSubAdds, ledger, awardsDone, overlapped, quiet, nQueries,
                 regVars, httpVars, webVars, order, firstBonuses>>

\* await CacheService.cacheLeaderboard('global', leaderboard);
\* return leaderboard.slice(0, limit)
\* CacheService.set does nothing without redis and swallows a failed command
LbCacheSet(c) ==
  LET q == query[c] IN
  /\ q.pc = "lbSet"
  /\ \E ok \in CacheOutcomes :
       /\ Count(ok)
       /\ lbCache' = IF redisOn /\ ok THEN TRUE ELSE lbCache
  /\ query' = [query EXCEPT ![c] =
       [q EXCEPT !.pc = "done", !.list = Slice(q.list, q.limit)]]
  /\ UNCHANGED <<users, badges, subs, userCache, redisOn, proc, nAwards, nFlows,
                 nSubAdds, ledger, awardsDone, overlapped, quiet, nQueries,
                 regVars, httpVars, webVars, order, firstBonuses>>

\* getUserRank(userId): no await inside; the placeholder is returned for any userId
GetUserRank(c, u) ==
  /\ FreeQuerySlot(c)
  /\ nQueries < MaxQueries
  /\ query' = [query EXCEPT ![c] =
       [NoQuery EXCEPT !.op = "rank", !.pc = "done", !.user = u,
                       !.rank = RankResult.rank,
                       !.totalUsers = RankResult.totalUsers,
                       !.percentile = RankResult.percentile]]
  /\ nQueries' = nQueries + 1
  /\ UNCHANGED <<webVars, order, firstBonuses, gamVars, regVars, httpVars>>

\* the leaderboard key is stored with TTL.SHORT: it expires
ExpireLb ==
  /\ lbCache
  /\ lbCache' = FALSE
  /\ UNCHANGED <<users, badges, subs, userCache, redisOn, proc, faults, nAwards, nFlows,
                 nSubAdds, ledger, awardsDone, overlapped, quiet, ext>>

\* no user has registered yet, nothing is cached
InitBoard ==
  /\ InitExt
  /\ redisOn \in BOOLEAN
  /\ users = [u \in Users |-> NoUser]
  /\ badges = [u \in Users |-> [b \in BadgeTypes |-> 0]]
  /\ subs = [u \in Users |-> NoSubs]
  /\ userCache = [u \in Users |-> NoCache]
  /\ lbCache = FALSE
  /\ proc = [c \in Calls |-> Idle]
  /\ faults = 0
  /\ nAwards = 0
  /\ nFlows = 0
  /\ nSubAdds = 0
  /\ ledger = [u \in Users |-> 0]
  /\ awardsDone = [u \in Users |-> 0]
  /\ overlapped = [u \in Users |-> FALSE]
  /\ quiet = [u \in Users |-> FALSE]

NextBoard ==
  \/ \E c \in Calls, limit \in Limits : InvokeLeaderboard(c, limit)
  \/ \E c \in Calls : LbGetCached(c)
  \/ \E c \in Calls : LbCacheSet(c)
  \/ \E c \in Calls, u \in Users : GetUserRank(c, u)
  \/ ExpireLb
  \/ \E u \in Users : Register(u)

SpecBoard == InitBoard /\ [][NextBoard]_vars

EmptyUserBase == \A u \in Users : ~users[u].exists

\* C12: getUserRank for a user with no score in the leaderboard, such as an unknown
\* user, fails with UserNotRanked instead of returning a rank.
C12_UnknownUserNotRanked ==
  \A c \in Calls :
    (query[c].op = "rank" /\ query[c].pc = "done" /\ ~users[query[c].user].exists) =>
      /\ query[c].failed
      /\ query[c].err = "UserNotRanked"

\* C13: every result of getUserRank has a 1-based rank and
\* percentile = 100 * (1 - (rank - 1) / totalUsers), that is
\* percentile * totalUsers = 100 * (totalUsers - (rank - 1)).
C13_PercentileFormula ==
  \A c \in Calls :
    (query[c].op = "rank" /\ query[c].pc = "done" /\ ~query[c].failed) =>
      /\ query[c].rank >= 1
      /\ query[c].totalUsers >= query[c].rank
      /\ query[c].percentile * query[c].totalUsers =
           100 * (query[c].totalUsers - (query[c].rank - 1))

\* C14: getLeaderboard does not fail and returns at most `limit` entries; on an empty
\* user base it returns the empty list, whether the list came from the cache or not
\* and whether redis is configured or not.
C14_EmptyLeaderboard ==
  \A c \in Calls :
    (query[c].op = "leaderboard" /\ query[c].pc = "done") =>
      /\ ~query[c].failed
      /\ Len(query[c].list) <= query[c].limit
      /\ EmptyUserBase => query[c].list = <<>>

\* C14 witness: on an empty user base one getLeaderboard was answered from the cache
\* and another one was not, both with a limit of at least 1.
C14_Witness ==
  \E c, d \in Calls :
    /\ EmptyUserBase
    /\ query[c].op = "leaderboard" /\ query[c].pc = "done" /\ query[c].hit
    /\ query[d].op = "leaderboard" /\ query[d].pc = "done" /\ ~query[d].hit
    /\ query[c].limit >= 1 /\ query[d].limit >= 1
    /\ query[c].list = <<>> /\ query[d].list = <<>>

\* ================================================================
\* checkAndAwardBadges over the thresholds of all six badges
\* ================================================================

\* numbers of approved submissions around the thresholds 1 / 5 / 10 / 25, and of
\* approved submissions with score >= 95 around the threshold 5
BadgeProfiles ==
  { s \in { [total |-> a, approved |-> a, perfect |-> q] :
               a \in {0, 1, 5, 10, 25}, q \in {0, 5} } :
      s.perfect <= s.approved }

InitBadges ==
  /\ InitExt
  /\ redisOn \in BOOLEAN
  /\ users = [u \in Users |-> IF u = "u1" THEN RegisteredUser ELSE NoUser]
  /\ badges = [u \in Users |-> [b \in BadgeTypes |-> 0]]
  /\ subs \in { [u \in Users |-> IF u = "u1" THEN s ELSE NoSubs] : s \in BadgeProfiles }
  /\ userCache = [u \in Users |->
       IF redisOn /\ u = "u1" THEN [present |-> TRUE, points |-> 0] ELSE NoCache]
  /\ lbCache = redisOn
  /\ proc = [c \in Calls |-> Idle]
  /\ faults = 0
  /\ nAwards = 0
  /\ nFlows = 0
  /\ nSubAdds = 0
  /\ ledger = [u \in Users |-> 0]
  /\ awardsDone = [u \in Users |-> 0]
  /\ overlapped = [u \in Users |-> FALSE]
  /\ quiet = [u \in Users |-> FALSE]

NextBadges ==
  \/ \E c \in Calls, u \in Users : InvokeEvaluate(c, u)
  \/ \E c \in Calls : EvGetUser(c)
  \/ \E c \in Calls : EvGetBadges(c)
  \/ \E c \in Calls : EvGetSubs(c)
  \/ \E c \in Calls : EvAwardBadge(c)
  \/ \E c \in Calls : EvInval(c)

SpecBadges == InitBadges /\ [][NextBadges]_vars

\* the badge types user u holds
Held(bs, u) == {b \in BadgeTypes : bs[u][b] > 0}

SeqSet(q) == {q[i] : i \in 1..Len(q)}

\* C15: a storage read or write that fails during checkAndAwardBadges makes the call
\* fail towards its caller; it does not end with a normal-looking result.
\* (getLeaderboard issues no storage command: its list is not queried.)
C15_ErrorsSurface ==
  [][\A c \in Calls :
       (/\ proc[c].pc \in {"evGetUser", "evGetBadges", "evGetSubs", "evAwardBadge"}
        /\ proc'[c] # proc[c]
        /\ faults' = faults + 1) =>
         proc'[c].pc = "failed"]_vars

\* C16: when checkAndAwardBadges returns normally for an existing user, the user holds
\* a badge exactly when it was held before or the user's counter meets the threshold
\* of the badge, and the returned list is exactly what this call granted.
C16_BadgesMatchThresholds ==
  [][\A c \in Calls :
       LET p == proc[c]
           u == p.user IN
       (/\ p.op = "evaluate"
        /\ ReturnsEval(c)
        /\ proc'[c].pc = "done"
        /\ users[u].exists
        /\ p.clean) =>
         /\ \A b \in BadgeTypes :
              b \in Held(badges', u) <=>
                (b \in p.before \/ Criterion(b, subs[u].approved, subs[u].perfect))
         /\ proc'[c].result = p.newBadges
         /\ SeqSet(proc'[c].result) \subseteq Held(badges', u) \ p.before]_vars

\* ================================================================
\* POST /api/auth/register, step by step
\* ================================================================
\* Request r is given the uid r by Firebase Auth. authUsers[r] is the email of the
\* account with that uid ("" when there is none), userDocs[r] the username of
\* users/{uid} ("" when there is none).

RegCanFail == regFaults < MaxRegFaults
RegOutcomes == IF RegCanFail THEN BOOLEAN ELSE {TRUE}
RegCount(ok) == regFaults' = IF ok THEN regFaults ELSE regFaults + 1

\* res.status(code).json(...): the request has its response
Respond(q, code) == [q EXCEPT !.pc = "done", !.status = code]

\* where('username', '==', username).limit(1).get() is not empty
UsernameTaken(docs, username) == \E uid \in RegIds : docs[uid] = username

\* adminAuth.createUser rejects with auth/email-already-exists
EmailExists(accts, email) == \E uid \in RegIds : accts[uid] = email

\* registerSchema.safeParse(req.body): 400 on failure, else the username query is issued
RegReceive(r, email, username, valid) ==
  /\ reg[r].pc = "idle"
  /\ \A d \in RegIds : d < r => reg[d].pc # "idle"
  /\ reg' = [reg EXCEPT ![r] =
       IF valid
         THEN [NoReg EXCEPT !.pc = "query", !.email = email, !.username = username]
         ELSE Respond([NoReg EXCEPT !.email = email, !.username = username], 400)]
  /\ UNCHANGED <<webVars, order, firstBonuses, gamVars, boardVars, httpVars, authUsers, userDocs, regFaults>>

\* const usernameQuery = await adminDb.collection('users').where(...).get();
\* 409 when not empty; a rejected query reaches the outer catch: 500
RegQueryUsername(r) ==
  LET q == reg[r] IN
  /\ q.pc = "query"
  /\ \E ok \in RegOutcomes :
       /\ RegCount(ok)
       /\ reg' = [reg EXCEPT ![r] =
            IF ~ok THEN Respond(q, 500)
            ELSE IF UsernameTaken(userDocs, q.username) THEN Respond(q, 409)
            ELSE [q EXCEPT !.pc = "createUser"]]
  /\ UNCHANGED <<webVars, order, firstBonuses, gamVars, boardVars, httpVars, authUsers, userDocs>>

\* firebaseUser = await adminAuth.createUser({email, password, displayName});
\* auth/email-already-exists -> 409, any other rejection -> 500
RegCreateUser(r) ==
  LET q == reg[r] IN
  /\ q.pc = "createUser"
  /\ \E ok \in RegOutcomes :
       /\ RegCount(ok)
       /\ IF ~ok
            THEN /\ reg' = [reg EXCEPT ![r] = Respond(q, 500)]
                 /\ UNCHANGED authUsers
            ELSE IF EmailExists(authUsers, q.email)
            THEN /\ reg' = [reg EXCEPT ![r] = Respond(q, 409)]
                 /\ UNCHANGED authUsers
            ELSE /\ reg' = [reg EXCEPT ![r] = [q EXCEPT !.pc = "setDoc"]]
                 /\ authUsers' = [authUsers EXCEPT ![r] = q.email]
  /\ UNCHANGED <<webVars, order, firstBonuses, gamVars, boardVars, httpVars, userDocs>>

\* await adminDb.collection('users').doc(firebaseUser.uid).set(userData);
\* on rejection the handler goes on to the rollback
RegSetDoc(r) ==
  LET q == reg[r] IN
  /\ q.pc = "setDoc"
  /\ \E ok \in RegOutcomes :
       /\ RegCount(ok)
       /\ userDocs' = [userDocs EXCEPT ![r] = IF ok THEN q.username ELSE @]
       /\ reg' = [reg EXCEPT ![r] = [q EXCEPT !.pc = IF ok THEN "cache" ELSE "rollback"]]
  /\ UNCHANGED <<webVars, order, firstBonuses, gamVars, boardVars, httpVars, authUsers>>

\* catch (firestoreError): await adminAuth.deleteUser(firebaseUser.uid); 500.
\* A rejected deleteUser reaches the outer catch, which answers 500 as well.
RegRollback(r) ==
  LET q == reg[r] IN
  /\ q.pc = "rollback"
  /\ \E ok \in RegOutcomes :
       /\ RegCount(ok)
       /\ authUsers' = [authUsers EXCEPT ![r] = IF ok THEN "" ELSE @]
  /\ reg' = [reg EXCEPT ![r] = Respond(q, 500)]
  /\ UNCHANGED <<webVars, order, firstBonuses, gamVars, boardVars, httpVars, userDocs>>

\* if (redis) await redis.set(cacheKey, ...) inside try/catch; then 201
RegCache(r) ==
  LET q == reg[r] IN
  /\ q.pc = "cache"
  /\ \E ok \in (IF redisOn THEN RegOutcomes ELSE {TRUE}) :
       /\ RegCount(ok)
       /\ reg' = [reg EXCEPT ![r] = Respond([q EXCEPT !.cached = redisOn /\ ok], 201)]
  /\ UNCHANGED <<webVars, order, firstBonuses, gamVars, boardVars, httpVars, authUsers, userDocs>>

NextRegister ==
  \/ \E r \in RegIds, email \in Emails, username \in Usernames, valid \in BOOLEAN :
       RegReceive(r, email, username, valid)
  \/ \E r \in RegIds : RegQueryUsername(r)
  \/ \E r \in RegIds : RegCreateUser(r)
  \/ \E r \in RegIds : RegSetDoc(r)
  \/ \E r \in RegIds : RegRollback(r)
  \/ \E r \in RegIds : RegCache(r)

SpecRegister == Init /\ [][NextRegister]_vars

\* C17: when a registration request has its response, the Auth account created by
\* the request exists exactly when its Firestore document exists.
C17_AuthMatchesFirestore ==
  \A r \in RegIds :
    reg[r].pc = "done" => ((authUsers[r] # "") <=> (userDocs[r] # ""))

\* C18: no two user documents carry the same username, and no request is answered
\* 201 for a username another answered request already registered.
C18_UsernamesUnique ==
  \A r1, r2 \in RegIds :
    (r1 # r2 /\ userDocs[r1] # "" /\ userDocs[r2] # "") => userDocs[r1] # userDocs[r2]

\* ================================================================
\* the /api/challenges router: authMiddleware, requireRole, the handlers
\* ================================================================

Routes ==
  {"GET /", "GET /:id", "POST /", "PUT /:id", "DELETE /:id", "POST /:id/participate"}

\* the middleware and handler of each route, in the order the router runs them
Chain(route) ==
  CASE route = "GET /" -> <<"list">>
    [] route = "GET /:id" -> <<"get">>
    [] route = "POST /" ->
         <<"authMiddleware", "requireRole", "challengeLimiter", "uploadLimiter", "create">>
    [] route = "PUT /:id" ->
         <<"authMiddleware", "requireRole", "challengeLimiter", "update">>
    [] route = "DELETE /:id" -> <<"authMiddleware", "requireRole", "delete">>
    [] route = "POST /:id/participate" -> <<"authMiddleware", "participate">>

Limiters == {"challengeLimiter", "uploadLimiter"}
Handlers == {"list", "get", "create", "update", "delete", "participate"}

\* requireRole('admin', 'business')
ChallengeRoles == {"admin", "business"}

\* Authorization headers: the prefix the scheme test looks at, and what follows it
Headers ==
  {NoHeader} \cup
  { [present |-> TRUE, scheme |-> "Bearer ", rest |-> t] : t \in {"", "  ", "tok"} } \cup
  { [present |-> TRUE, scheme |-> sc, rest |-> "tok"] : sc \in {"bearer ", "Basic "} }

\* what adminAuth.verifyIdToken(token, true) does with the token
VerifyOutcomes ==
  {"ok", "auth/id-token-expired", "auth/id-token-revoked", "auth/argument-error",
   "auth/internal-error"}

\* the role custom claim of the decoded token ("none": the token has no such claim)
RoleClaims == {"none", "", "citizen", "business", "admin", "moderator"}

\* an exception outside verifyIdToken thrown inside authMiddleware's try: none, one
\* while the header is read ("header"), one while req.user is built ("attach")
AuthFaults == {"none", "header", "attach"}

\* a bug: any scheme is accepted
StartsWithBearer_Any(h) == TRUE

\* authHeader.startsWith('Bearer ')
StartsWithBearer(h) == h.scheme = "Bearer "

\* authHeader.substring(7).trim()
Trim(t) == IF t = "  " THEN "" ELSE t

\* the error name answered for a rejected verifyIdToken
VerifyErrorName(code) ==
  CASE code = "auth/id-token-expired" -> "TokenExpired"
    [] code = "auth/id-token-revoked" -> "TokenRevoked"
    [] code = "auth/argument-error" -> "InvalidToken"
    [] OTHER -> "AuthenticationFailed"

\* (decodedToken as any).role || 'citizen'
RoleOf(claim) == IF claim \in {"none", ""} THEN "citizen" ELSE claim

\* a bug: every authenticated user passes the role test
HasRole_Any(role, roles) == TRUE

\* roles.includes(userRole)
HasRole(role, roles) == role \in roles

\* requireRole(...roles)(req, res, next): the status it answers, 0 when it calls next
RequireRole(hasUser, role, roles) ==
  IF ~hasUser THEN 401
  ELSE IF ~HasRole(role, roles) THEN 403
  ELSE 0

\* res.status(code).json({error: name}): the request ends here
Answer(h, code, name) == [h EXCEPT !.pc = "end", !.status = code, !.error = name]

\* the head of the chain is entered
Enter(h) == [h EXCEPT !.ran = Append(@, Head(h.chain))]

\* next(): the rest of the chain is up
CallNext(h) == [h EXCEPT !.chain = Tail(@), !.pc = "run"]

\* a request arrives and is dispatched to the chain of its route
Receive(route, header) ==
  /\ http.pc \in {"idle", "end"}
  /\ nReqs < MaxReqs
  /\ http' = [NoRequest EXCEPT !.pc = "run", !.route = route, !.chain = Chain(route),
                               !.header = header]
  /\ nReqs' = nReqs + 1
  /\ UNCHANGED <<webVars, order, firstBonuses, gamVars, boardVars, regVars>>

\* authMiddleware up to await adminAuth.verifyIdToken: the header tests
AuthCheckHeader(fault) ==
  LET h == [Enter(http) EXCEPT !.fault = fault]
      e401 == [Answer(h, 401, "Unauthorized") EXCEPT
                 !.authStatus = 401, !.authError = "Unauthorized"] IN
  /\ http.pc = "run"
  /\ http.chain # <<>>
  /\ Head(http.chain) = "authMiddleware"
  /\ http' =
       IF h.fault = "header"
         THEN [Answer(h, 500, "InternalServerError") EXCEPT
                 !.authStatus = 500, !.authError = "InternalServerError"]
       ELSE IF ~h.header.present THEN e401
       ELSE IF ~StartsWithBearer(h.header) THEN e401
       ELSE IF Trim(h.header.rest) = "" THEN e401
       ELSE [h EXCEPT !.pc = "verify"]
  /\ UNCHANGED <<webVars, order, firstBonuses, gamVars, boardVars, regVars, nReqs>>

\* verifyIdToken settles: 401 by error code, or req.user is attached and next() called
AuthVerified(verify, claim, fault) ==
  LET h == [http EXCEPT !.verify = verify,
                        !.claim = IF verify = "ok" THEN claim ELSE @,
                        !.fault = IF verify = "ok" THEN fault ELSE @] IN
  /\ h.pc = "verify"
  /\ http' =
       IF h.verify # "ok"
         THEN [Answer(h, 401, VerifyErrorName(h.verify)) EXCEPT
                 !.authStatus = 401, !.authError = VerifyErrorName(h.verify)]
       ELSE IF h.fault = "attach"
         THEN [Answer(h, 500, "InternalServerError") EXCEPT
                 !.authStatus = 500, !.authError = "InternalServerError"]
       ELSE CallNext([h EXCEPT !.hasUser = TRUE, !.role = RoleOf(h.claim),
                               !.authNext = @ + 1])
  /\ UNCHANGED <<webVars, order, firstBonuses, gamVars, boardVars, regVars, nReqs>>

\* requireRole('admin', 'business')
RunRequireRole ==
  LET h == Enter(http)
      userRole == IF h.role = "" THEN "citizen" ELSE h.role
      code == RequireRole(h.hasUser, userRole, ChallengeRoles) IN
  /\ http.pc = "run"
  /\ http.chain # <<>>
  /\ Head(http.chain) = "requireRole"
  /\ http' =
       IF code = 0 THEN CallNext([h EXCEPT !.roleNext = @ + 1])
       ELSE [Answer(h, code, IF code = 401 THEN "Unauthorized" ELSE "Forbidden") EXCEPT
               !.roleStatus = code]
  /\ UNCHANGED <<webVars, order, firstBonuses, gamVars, boardVars, regVars, nReqs>>

\* challengeLimiter / uploadLimiter: next(), or 429 when the limit is reached
RunLimiter(reject) ==
  LET h == Enter(http) IN
  /\ http.pc = "run"
  /\ http.chain # <<>>
  /\ Head(http.chain) \in Limiters
  /\ http' =
       IF reject
         THEN Answer([h EXCEPT !.limited = Head(http.chain)], 429, "TooManyRequests")
         ELSE CallNext(h)
  /\ UNCHANGED <<webVars, order, firstBonuses, gamVars, boardVars, regVars, nReqs>>

\* the route handler: res.status(501)
RunHandler ==
  LET h == Enter(http) IN
  /\ http.pc = "run"
  /\ http.chain # <<>>
  /\ Head(http.chain) \in Handlers
  /\ http' = Answer(h, 501, "")
  /\ UNCHANGED <<webVars, order, firstBonuses, gamVars, boardVars, regVars, nReqs>>

NextHttp ==
  \/ \E route \in Routes, header \in Headers : Receive(route, header)
  \/ \E fault \in AuthFaults \ {"attach"} : AuthCheckHeader(fault)
  \/ \E verify \in VerifyOutcomes, claim \in RoleClaims, fault \in AuthFaults \ {"header"} :
       AuthVerified(verify, claim, fault)
  \/ RunRequireRole
  \/ \E reject \in BOOLEAN : RunLimiter(reject)
  \/ RunHandler

SpecHttp == Init /\ [][NextHttp]_vars

\* authMiddleware has finished for the request
AuthFinished == http.authNext > 0 \/ http.authStatus # 0

\* the request carries a usable Bearer token
GoodHeader(h) == h.present /\ h.scheme = "Bearer " /\ h.rest = "tok"

Ran(name) == \E i \in 1..Len(http.ran) : http.ran[i] = name

\* nothing of the chain was entered after `name`
RanLast(name) == http.ran # <<>> /\ http.ran[Len(http.ran)] = name

\* C19: authMiddleware calls next, with req.user set, only for a present header with
\* the Bearer scheme, a non-empty token and a token that verifies; otherwise it
\* answers 401 (Unauthorized for a missing header, a wrong scheme or an empty token;
\* TokenExpired, TokenRevoked, InvalidToken, AuthenticationFailed by the verification
\* error) or 500 for an unexpected error; it never both answers and calls next.
C19_AuthMiddleware ==
  AuthFinished =>
    /\ http.authNext <= 1
    /\ ~(http.authNext > 0 /\ http.authStatus # 0)
    /\ http.authNext = 1 <=>
         (GoodHeader(http.header) /\ http.verify = "ok" /\ http.fault = "none")
    /\ http.authNext = 1 => http.hasUser
    /\ http.authStatus # 0 =>
         /\ ~http.hasUser
         /\ http.status = http.authStatus
         /\ RanLast("authMiddleware")
         /\ http.authStatus \in {401, 500}
         /\ http.authStatus = 500 <=> http.authError = "InternalServerError"
         /\ http.authStatus = 500 =>
              (http.fault = "header" \/ (http.fault = "attach" /\ http.verify = "ok"))
         /\ http.authError = "Unauthorized" <=>
              (http.fault # "header" /\ ~GoodHeader(http.header))
         /\ (http.fault # "header" /\ GoodHeader(http.header)) =>
              /\ http.verify = "auth/id-token-expired" => http.authError = "TokenExpired"
              /\ http.verify = "auth/id-token-revoked" => http.authError = "TokenRevoked"
              /\ http.verify = "auth/argument-error" => http.authError = "InvalidToken"
              /\ http.verify = "auth/internal-error" =>
                   http.authError = "AuthenticationFailed"

\* C19 witness: a request with a verified Bearer token went through authMiddleware
\* to the participate handler.
C19_Witness ==
  /\ http.route = "POST /:id/participate"
  /\ http.authNext = 1
  /\ http.hasUser
  /\ Ran("participate")
  /\ http.status = 501

\* C20: the create / update / delete handlers of /api/challenges run only after
\* authMiddleware passed and with a role (default citizen) that is admin or business;
\* any other role is answered 403, a request without req.user 401, and after either
\* answer nothing later in the chain runs.
C20_RoleGate ==
  /\ (Ran("create") \/ Ran("update") \/ Ran("delete")) =>
       /\ http.authNext = 1
       /\ http.roleNext = 1
       /\ http.hasUser
       /\ http.role \in {"admin", "business"}
       /\ http.ran[1] = "authMiddleware"
       /\ http.ran[2] = "requireRole"
  /\ (Ran("requireRole") /\ http.pc # "run" /\ http.roleNext = 0) =>
       /\ http.roleStatus = 403
       /\ http.status = 403
       /\ http.role \notin {"admin", "business"}
       /\ RanLast("requireRole")
  /\ (Ran("requireRole") /\ http.claim \in {"none", ""}) => http.role = "citizen"
  /\ (Ran("requireRole") /\ http.role \notin {"admin", "business"}) => http.roleNext = 0
  /\ http.roleStatus # 0 => http.roleNext = 0
  /\ \A role \in {"citizen", "business", "admin"} :
       RequireRole(FALSE, role, ChallengeRoles) = 401

\* C20 witness: a business user's PUT reached the update handler, through
\* authMiddleware, requireRole and the limiter.
C20_Witness ==
  /\ http.route = "PUT /:id"
  /\ http.role = "business"
  /\ http.ran = <<"authMiddleware", "requireRole", "challengeLimiter", "update">>
  /\ http.status = 501

\* ------------------------------------------------ points and totalPoints

\* C28: points and totalPoints of a registered user are equal in every reachable
\* state (a document without totalPoints counts as totalPoints 0), after any
\* sequence of awardPoints calls, overlapping or not.
C28_PointsEqualTotal ==
  \A u \in Users : users[u].exists => PointsOf(users[u]) = TotalOf(users[u])

\* C28 witness: two awardPoints calls of u1 overlapped and both returned, one
\* update was lost, and the two fields still agree on a non-zero value.
C28_Witness ==
  /\ overlapped["u1"]
  /\ awardsDone["u1"] = 2
  /\ NoAwardRunning("u1")
  /\ PointsOf(users["u1"]) # ledger["u1"]
  /\ PointsOf(users["u1"]) # 0
  /\ users["u1"].hasTotal
  /\ users["u1"].points = users["u1"].totalPoints

\* ------------------------------- POST /login, POST /logout, GET /me, step by step
\* Every await of a handler is one step; the requests interleave at those steps.

\* what the handlers leave alone
notRoute == <<boardVars, regVars, httpVars, frontVars, sockVars, order, firstBonuses>>
gamRest ==
  <<badges, subs, lbCache, redisOn, proc, nAwards, nFlows, nSubAdds, ledger,
    awardsDone, overlapped, quiet>>

\* the outcomes of adminAuth.verifyIdToken for the token a request carries
TokenChecks == {"ok", "expired", "invalid"}

FreeSess(q) == q.pc \in {"idle", "done"}
FreeSessSlot(s) ==
  /\ FreeSess(sess[s])
  /\ \A t \in Calls : t < s => ~FreeSess(sess[t])

\* res.status(status).json({ success, error: { code } }) or the 200 body with points
Reply(q, status, code) == [q EXCEPT !.pc = "done", !.status = status, !.code = code]

\* the points the awards of u that have returned had written: a call that has
\* written and not returned yet still holds the value it read
ReturnedTotal(u) ==
  IF \E c \in Calls : proc[c].user = u /\ proc[c].pc \in {"invalUser", "invalLb"}
    THEN LET c == CHOOSE d \in Calls :
                    proc[d].user = u /\ proc[d].pc \in {"invalUser", "invalLb"}
         IN proc[c].rPoints
    ELSE PointsOf(users[u])

\* the request arrives; login validates its body first (400 VALIDATION_ERROR)
SessReceive(s, op, u, valid) ==
  /\ nSess < MaxSess
  /\ FreeSessSlot(s)
  /\ op = "login" \/ valid
  /\ nSess' = nSess + 1
  /\ sess' = [sess EXCEPT ![s] =
       LET q == [NoSess EXCEPT !.op = op, !.user = u, !.floor = ReturnedTotal(u)]
       IN IF valid THEN [q EXCEPT !.pc = "verify"] ELSE Reply(q, 400, "VALIDATION_ERROR")]
  /\ UNCHANGED <<notRoute, gamVars, sessionCache>>

\* where a verified request goes: `if (redis)` guards every cache command
AfterVerify(q) ==
  CASE q.op = "logout" -> IF redisOn THEN [q EXCEPT !.pc = "sessionDel"] ELSE Reply(q, 200, "")
    [] OTHER -> [q EXCEPT !.pc = IF redisOn THEN "cacheGet" ELSE "docGet"]

\* await adminAuth.verifyIdToken(idToken): in the login handler, or in authMiddleware
SessVerify(s, check) ==
  LET q == sess[s] IN
  /\ q.pc = "verify"
  /\ sess' = [sess EXCEPT ![s] =
       CASE check = "ok" -> AfterVerify(q)
         [] check = "expired" -> Reply(q, 401, "TOKEN_EXPIRED")
         [] OTHER -> Reply(q, 401, "INVALID_TOKEN")]
  /\ UNCHANGED <<notRoute, gamVars, nSess, sessionCache>>

\* the 200 response of login and me carries userData.points
Success(q, points) == [Reply(q, 200, "") EXCEPT !.points = points]

\* what follows once userData is there: login stores the session first
AfterUserData(q, points) ==
  IF q.op = "login" /\ redisOn
    THEN [q EXCEPT !.pc = "sessionSet", !.points = points]
    ELSE Success(q, points)

\* cachedUser = await redis.get(cacheKey); if (cachedUser) userData = JSON.parse(..):
\* a failing command is caught and leaves userData null
CacheHit(entry, ok) == ok /\ entry.present

SessCacheGet(s) ==
  LET q == sess[s] IN
  /\ q.pc = "cacheGet"
  /\ \E ok \in CacheOutcomes :
       /\ Count(ok)
       /\ sess' = [sess EXCEPT ![s] =
            IF CacheHit(userCache[q.user], ok)
              THEN AfterUserData([q EXCEPT !.hit = TRUE], userCache[q.user].points)
              ELSE [q EXCEPT !.pc = "docGet"]]
  /\ UNCHANGED <<notRoute, gamRest, users, userCache, nSess, sessionCache>>

\* userDoc = await adminDb.collection('users').doc(uid).get(): 404 without the
\* document, 500 when the read fails
SessDocGet(s) ==
  LET q == sess[s] IN
  /\ q.pc = "docGet"
  /\ \E ok \in Outcomes :
       /\ Count(ok)
       /\ sess' = [sess EXCEPT ![s] =
            IF ~ok THEN Reply(q, 500, "INTERNAL_ERROR")
            ELSE IF ~users[q.user].exists THEN Reply(q, 404, "USER_NOT_FOUND")
            ELSE IF redisOn THEN [q EXCEPT !.pc = "cacheSet", !.points = PointsOf(users[q.user])]
            ELSE AfterUserData(q, PointsOf(users[q.user]))]
  /\ UNCHANGED <<notRoute, gamRest, users, userCache, nSess, sessionCache>>

\* redis.set(cacheKey, JSON.stringify(userData), { ex: 900 }): a failure is swallowed
CacheSet(entry, points, ok) == IF ok THEN [present |-> TRUE, points |-> points] ELSE entry

SessCacheSet(s) ==
  LET q == sess[s] IN
  /\ q.pc = "cacheSet"
  /\ \E ok \in CacheOutcomes :
       /\ Count(ok)
       /\ userCache' = [userCache EXCEPT ![q.user] = CacheSet(@, q.points, ok)]
  /\ sess' = [sess EXCEPT ![s] = AfterUserData(q, q.points)]
  /\ UNCHANGED <<notRoute, gamRest, users, nSess, sessionCache>>

\* login: redis.set(sessionKey, ..., { ex: 86400 }), swallowed on failure; then 200
SessSessionSet(s) ==
  LET q == sess[s] IN
  /\ q.pc = "sessionSet"
  /\ \E ok \in CacheOutcomes :
       /\ Count(ok)
       /\ sessionCache' = [sessionCache EXCEPT ![q.user] = IF ok THEN TRUE ELSE @]
  /\ sess' = [sess EXCEPT ![s] = Success(q, q.points)]
  /\ UNCHANGED <<notRoute, gamRest, users, userCache, nSess>>

\* logout: redis.del(sessionKey), swallowed on failure; then 200
SessSessionDel(s) ==
  LET q == sess[s] IN
  /\ q.pc = "sessionDel"
  /\ \E ok \in CacheOutcomes :
       /\ Count(ok)
       /\ sessionCache' = [sessionCache EXCEPT ![q.user] = IF ok THEN FALSE ELSE @]
  /\ sess' = [sess EXCEPT ![s] = Reply(q, 200, "")]
  /\ UNCHANGED <<notRoute, gamRest, users, userCache, nSess>>

\* FirebaseService.deleteUser(userId): the users document is deleted; the cached
\* copy is not touched
DeleteUser(u) ==
  /\ nSess < MaxSess
  /\ users[u].exists
  /\ nSess' = nSess + 1
  /\ users' = [users EXCEPT ![u] = NoUser]
  /\ proc' = [d \in Calls |-> Touch(proc[d], u)]
  /\ quiet' = [quiet EXCEPT ![u] = FALSE]
  /\ UNCHANGED <<notRoute, badges, subs, userCache, lbCache, redisOn, faults, nAwards,
                 nFlows, nSubAdds, ledger, awardsDone, overlapped, sess, sessionCache>>

\* the steps in which login and me verify the token and obtain userData
UserDataStep ==
  \/ \E s \in Calls, check \in TokenChecks : SessVerify(s, check)
  \/ \E s \in Calls : SessCacheGet(s)
  \/ \E s \in Calls : SessDocGet(s)
  \/ \E s \in Calls : SessCacheSet(s)

SessStep ==
  \/ UserDataStep
  \/ \E s \in Calls : SessSessionSet(s)
  \/ \E s \in Calls : SessSessionDel(s)

RouteOps == {"login", "logout", "me"}

\* The auth routes over the users collection and the cache, with documents
\* deleted and re-created in between.
NextLogin ==
  \/ \E s \in Calls, op \in RouteOps, u \in Users, valid \in BOOLEAN :
       SessReceive(s, op, u, valid)
  \/ SessStep
  \/ \E u \in Users : DeleteUser(u)
  \/ \E u \in Users : Register(u)

SpecLogin == Init /\ [][NextLogin]_vars

\* request s takes a step
Steps(s) == sess'[s] # sess[s] /\ sess[s].pc \notin {"idle", "done"}

\* C21: POST /api/auth/login with a valid ID token answers 404 USER_NOT_FOUND
\* whenever the user's document does not exist in Firestore, in every state of the
\* cache: the step in which the handler obtains userData, taken while the document
\* is missing, either goes on to the Firestore read or ends the request with 404
\* (500 when the Firestore read itself failed).
C21_LoginUserNotFound ==
  [][\A s \in Calls :
       ( /\ sess[s].op = "login"
         /\ sess[s].pc \in {"cacheGet", "docGet"}
         /\ Steps(s)
         /\ ~users[sess[s].user].exists )
       => \/ sess'[s].pc = "docGet"
          \/ sess'[s].pc = "done" /\ sess'[s].status = 404 /\ sess'[s].code = "USER_NOT_FOUND"
          \/ sess'[s].pc = "done" /\ sess'[s].status = 500 /\ faults' = faults + 1]_vars

\* C22: the server works without Redis: no cache command of login, logout or me,
\* failing or not, changes Firestore or fails the request, and an answer taken
\* from the cache is the answer the Firestore read gives without a cache (200 only
\* for a user whose document exists).
C22_SameWithoutRedis ==
  [][\A s \in Calls :
       Steps(s) =>
         /\ sess[s].pc \in {"cacheGet", "cacheSet", "sessionSet", "sessionDel"} =>
              /\ users' = users
              /\ ~(sess'[s].pc = "done" /\ sess'[s].status >= 400)
         /\ (sess[s].pc = "cacheGet" /\ sess'[s].hit) => users[sess[s].user].exists]_vars

\* ------------------------------------------- awards next to login and me

\* awardPoints(u, 100) of one request after the other
InvokeAwardSerial(c, u) ==
  /\ NoAwardRunning(u)
  /\ InvokeAward(c, u, CHALLENGE_COMPLETION)

\* user u1 collecting points while login and me requests of u1 arrive
NextStale ==
  \/ \E c \in Calls : InvokeAwardSerial(c, "u1")
  \/ AwardStep
  \/ \E s \in Calls, op \in {"login", "me"} : SessReceive(s, op, "u1", TRUE)
  \/ UserDataStep
  \/ \E s \in Calls : SessSessionSet(s)

SpecStale == InitAward /\ [][NextStale]_vars

\* C27: once an awardPoints call has returned, a me or login request arriving
\* later reports points not lower than the total that award wrote.
C27_NoStaleAfterAward ==
  \A s \in Calls :
    (sess[s].op \in {"login", "me"} /\ sess[s].pc = "done" /\ sess[s].status = 200)
      => sess[s].points >= sess[s].floor

\* ---------------------------------------------- repeated challenge completions

\* processChallengeCompletion(u) called again once the previous request has ended:
\* a retry for the same submission, or the completion of a later one
InvokeCompleteSerial(c, u) ==
  /\ \A d \in Calls : Free(proc[d])
  /\ InvokeComplete(c, u)

NextRetry ==
  \/ \E c \in Calls, u \in Users : InvokeCompleteSerial(c, u)
  \/ AwardStep
  \/ FlowStep
  \/ Submit
  \/ \E u \in Users : Register(u)

SpecRetry == Init /\ [][NextRetry]_vars

\* C29: the 50-point first-challenge bonus is written at most once per user, over
\* any sequence of processChallengeCompletion calls, retries for the same submission
\* and calls for a user with pending or rejected submissions included.
C29_FirstBonusOnce == \A u \in Users : firstBonuses[u] <= 1

\* ------------------------------------------- reads of the evaluation step

\* GET /api/auth/me of u1, one request after the other
MeSerial(s) ==
  /\ \A t \in Calls : FreeSess(sess[t])
  /\ SessReceive(s, "me", "u1", TRUE)

\* the first completion of u1 while me requests of u1 fill the user cache
NextFresh ==
  \/ \E c \in Calls : CompleteSubmission(c, "u1")
  \/ AwardStep
  \/ FlowStep
  \/ \E s \in Calls : MeSerial(s)
  \/ UserDataStep

SpecFresh == InitFirst /\ [][NextFresh]_vars

\* the evaluation of completion flow c has just read the user / the badges /
\* the submissions
ReadsUser(c) == proc[c].pc = "evGetUser" /\ proc'[c].pc = "evGetBadges"
ReadsBadges(c) == proc[c].pc = "evGetBadges" /\ proc'[c].pc = "evGetSubs"
ReadsSubs(c) == proc[c].pc = "evGetSubs" /\ proc'[c].pc = "evAwardBadge"

\* C25: read-your-writes in the completion flow: the evaluate step that follows an
\* award reads the user, the badges and the submissions as Firestore holds them at
\* the moment of the read, the award's completed write included, never the older
\* copy a cache holds.
C25_ReadYourWrites ==
  [][\A c \in Calls :
       proc[c].op = "complete" =>
         /\ ReadsUser(c) =>
              /\ proc'[c].seen = TotalOf(users[proc[c].user])
              /\ proc'[c].seen = ledger[proc[c].user]
         /\ ReadsBadges(c) =>
              proc'[c].earned = {b \in BadgeTypes : badges[proc[c].user][b] > 0}
         /\ ReadsSubs(c) =>
              /\ proc'[c].completed = subs[proc[c].user].approved
              /\ proc'[c].perfect = subs[proc[c].user].perfect]_vars

\* C25 witness: the evaluation of a completion flow has read the user with the 150
\* points its two awards wrote, while the cache holds an older copy with fewer
\* points, written by a me request.
C25_Witness ==
  \E c \in Calls :
    /\ proc[c].op = "complete"
    /\ proc[c].pc = "evGetBadges"
    /\ proc[c].seen = CHALLENGE_COMPLETION + FIRST_CHALLENGE
    /\ userCache[proc[c].user].present
    /\ userCache[proc[c].user].points < proc[c].seen

\* ------------------------------------------ the order of the badge tests

Reverse(q) == [i \in 1..Len(q) |-> q[Len(q) + 1 - i]]
Rotate(q, k) == [i \in 1..Len(q) |-> q[((i + k - 1) % Len(q)) + 1]]

\* orders in which the six tests of checkAndAwardBadges can be written
Orders == {BadgeOrder, Reverse(BadgeOrder), Rotate(BadgeOrder, 2), Rotate(Reverse(BadgeOrder), 3)}

\* the grants a user can hold before an evaluation: none, or one badge whose
\* threshold the user's counters meet
GrantProfiles(s) ==
  {{}} \cup {{b} : b \in {x \in BadgeTypes : Criterion(x, s.approved, s.perfect)}}

InitOrder ==
  /\ InitParts
  /\ order \in Orders
  /\ redisOn \in BOOLEAN
  /\ users = [u \in Users |-> IF u = "u1" THEN RegisteredUser ELSE NoUser]
  /\ subs \in { [u \in Users |-> IF u = "u1" THEN s ELSE NoSubs] : s \in BadgeProfiles }
  /\ badges \in { [u \in Users |-> [b \in BadgeTypes |->
                     IF u = "u1" /\ b \in g THEN 1 ELSE 0]] :
                  g \in GrantProfiles(subs["u1"]) }
  /\ userCache = [u \in Users |->
       IF redisOn /\ u = "u1" THEN [present |-> TRUE, points |-> 0] ELSE NoCache]
  /\ lbCache = redisOn
  /\ proc = [c \in Calls |-> Idle]
  /\ faults = 0
  /\ nAwards = 0
  /\ nFlows = 0
  /\ nSubAdds = 0
  /\ ledger = [u \in Users |-> 0]
  /\ awardsDone = [u \in Users |-> 0]
  /\ overlapped = [u \in Users |-> FALSE]
  /\ quiet = [u \in Users |-> FALSE]

\* checkAndAwardBadges(u1), one call after the other
InvokeEvaluateSerial(c) ==
  /\ \A d \in Calls : Free(proc[d])
  /\ InvokeEvaluate(c, "u1")

NextOrder ==
  \/ \E c \in Calls : InvokeEvaluateSerial(c)
  \/ \E c \in Calls : EvGetUser(c)
  \/ \E c \in Calls : EvGetBadges(c)
  \/ \E c \in Calls : EvGetSubs(c)
  \/ \E c \in Calls : EvAwardBadge(c)
  \/ \E c \in Calls : EvInval(c)

SpecOrder == InitOrder /\ [][NextOrder]_vars

\* the badges an evaluation has to grant: a function of the counters and of the
\* grants held before it, with no order in it
Expected(s, held) ==
  {b \in BadgeTypes : Criterion(b, s.approved, s.perfect) /\ b \notin held}

Path(name) == <<"/", name>>

\* const publicRoutes / const protectedRoutes
PublicRoutes == {<<"/">>, Path("login"), Path("register")}
ProtectedRoutes == {Path("dashboard"), Path("profile"), Path("challenges"), Path("leaderboard")}

\* request paths: the routes, sub-paths of them, names that only begin like a
\* route, other pages, an API route and a static file below a protected route
Paths ==
  PublicRoutes \cup ProtectedRoutes \cup
  { Path("dashboard") \o <<"/", "stats">>, Path("challenges") \o <<"/", "42">>,
    Path("dashboard") \o <<"x">>, Path("profile") \o <<"s">>,
    Path("login") \o <<"/", "help">>, Path("about"),
    Path("api") \o <<"/", "auth">>, Path("dashboard") \o <<"/", "logo", ".png">> }

\* the value of the auth-storage cookie: none, empty, JSON whose
\* state.isAuthenticated is true / false / a non-boolean, JSON without state,
\* or text that is not JSON
StorageCookies == {"absent", "empty", "authTrue", "authFalse", "authOne", "noState", "malformed"}

\* the value of the auth-token cookie
TokenCookies == {"absent", "empty", "tok"}

\* pathname.startsWith(route)
StartsWith(path, route) ==
  /\ Len(path) >= Len(route)
  /\ SubSeq(path, 1, Len(route)) = route

\* protectedRoutes.some((route) => pathname.startsWith(route))
IsProtectedRoute(path) == \E route \in ProtectedRoutes : StartsWith(path, route)

\* `if (authStorage) { JSON.parse; state?.isAuthenticated === true } else if (authToken)`:
\* an absent or empty value is falsy, a parse error is caught
IsAuthenticated(storage, token) ==
  IF storage \notin {"absent", "empty"}
    THEN storage = "authTrue"
    ELSE token \notin {"absent", "empty"}

\* config.matcher: every path except those beginning with api, _next/static,
\* _next/image, favicon.ico and those ending in an image extension
Matched(path) ==
  /\ ~(Len(path) >= 2 /\ path[2] \in {"api", "_next/static", "_next/image", "favicon.ico"})
  /\ ~(Len(path) >= 1 /\ path[Len(path)] \in {".svg", ".png", ".jpg", ".jpeg", ".gif", ".webp", ".ico"})

PassOn(q) == [q EXCEPT !.pc = "done", !.outcome = "next"]
RedirectTo(q, location, redirect) ==
  [q EXCEPT !.pc = "done", !.outcome = "redirect", !.location = location,
            !.redirect = redirect]

\* middleware(request)
Middleware(q) ==
  LET auth == IsAuthenticated(q.storage, q.token) IN
  IF auth /\ q.path \in {Path("login"), Path("register")}
    THEN RedirectTo(q, Path("dashboard"), <<>>)
  ELSE IF IsProtectedRoute(q.path) /\ ~auth
    THEN RedirectTo(q, Path("login"), q.path)
  ELSE PassOn(q)

\* a request arrives: the middleware runs on the matched paths only
MwRequest(path, storage, token) ==
  /\ mw' = LET q == [NoMw EXCEPT !.path = path, !.storage = storage, !.token = token]
           IN IF Matched(path) THEN Middleware(q) ELSE PassOn(q)
  /\ UNCHANGED <<gamVars, boardVars, regVars, httpVars, routeVars, sockVars, order,
                 firstBonuses, fbUser, store, cbs>>

NextMw ==
  \E path \in Paths, storage \in StorageCookies, token \in TokenCookies :
    MwRequest(path, storage, token)

SpecMw == Init /\ [][NextMw]_vars

\* the request counts as authenticated in the words of the documentation: the
\* auth-storage cookie says isAuthenticated, or there is an auth-token cookie
CountsAsAuthenticated(q) == q.storage = "authTrue" \/ q.token = "tok"

\* a protected route or a path below one
ProtectedOrBelow(path) ==
  \E route \in ProtectedRoutes : path = route \/ StartsWith(path, route \o <<"/">>)

\* C23: an unauthenticated request for a protected route or a path below one is
\* redirected to /login with the path in the redirect parameter, an authenticated
\* request for /login or /register is redirected to /dashboard, and every other
\* request passes; authenticated means auth-storage says isAuthenticated or an
\* auth-token cookie is there.
C23_RouteProtection ==
  mw.pc = "done" =>
    IF ProtectedOrBelow(mw.path) /\ ~CountsAsAuthenticated(mw)
      THEN mw.outcome = "redirect" /\ mw.location = Path("login") /\ mw.redirect = mw.path
    ELSE IF CountsAsAuthenticated(mw) /\ mw.path \in {Path("login"), Path("register")}
      THEN mw.outcome = "redirect" /\ mw.location = Path("dashboard")
    ELSE mw.outcome = "next"

\* ================================================================
\* useAuthSync over the auth store
\* ================================================================
\* Each invocation of the onAuthStateChanged callback is one entry of cbs; after
\* each of its awaits it resumes in a step of its own.

FirebaseStates == {"none"} \cup Users

frontRest == <<gamVars, boardVars, regVars, httpVars, routeVars, sockVars, order,
               firstBonuses, mw>>

\* setUser: (user) => set({ user, isAuthenticated: !!user, error: null })
SetUser(st, user, source) ==
  [st EXCEPT !.user = user, !.source = source, !.isAuthenticated = (user # "none")]

\* setLoading: (loading) => set({ isLoading: loading })
SetLoading(st, loading) == [st EXCEPT !.isLoading = loading]

\* logout: () => set({ user: null, isAuthenticated: false, error: null })
Logout(st) == [st EXCEPT !.user = "none", !.source = "-", !.isAuthenticated = FALSE]

\* the effect has run: setLoading(true) and the subscription
Mounted == store.isLoading \/ cbs[1].pc # "idle"

\* useEffect: setLoading(true); onAuthStateChanged(auth, callback)
Mount ==
  /\ ~Mounted
  /\ store' = SetLoading(store, TRUE)
  /\ UNCHANGED <<frontRest, fbUser, cbs>>

\* Firebase reports its auth state: the current one to the new subscriber, then
\* every change. The callback runs up to its first await: signed out, it calls
\* logout() and setLoading(false) at once.
AuthStateChanged(i, new) ==
  /\ Mounted
  /\ cbs[i].pc = "idle"
  /\ \A j \in ChangeIds : j < i => cbs[j].pc # "idle"
  /\ i > 1 => new # fbUser
  /\ fbUser' = new
  /\ IF new = "none"
       THEN /\ store' = SetLoading(Logout(store), FALSE)
            /\ cbs' = [cbs EXCEPT ![i] = [pc |-> "done", user |-> new]]
       ELSE /\ cbs' = [cbs EXCEPT ![i] = [pc |-> "token", user |-> new]]
            /\ UNCHANGED store
  /\ UNCHANGED frontRest

\* const idToken = await firebaseUser.getIdToken(): a rejection goes to the catch,
\* which sets the Firebase user data; then setLoading(false)
CbToken(i, ok) ==
  /\ cbs[i].pc = "token"
  /\ IF ok
       THEN /\ cbs' = [cbs EXCEPT ![i].pc = "me"]
            /\ UNCHANGED store
       ELSE /\ cbs' = [cbs EXCEPT ![i].pc = "done"]
            /\ store' = SetLoading(SetUser(store, cbs[i].user, "firebase"), FALSE)
  /\ UNCHANGED <<frontRest, fbUser>>

\* the outcomes of axios.get(/api/auth/me): success, a body without success, an error
MeOutcomes == {"success", "noSuccess", "error"}

\* const response = await axios.get(.../api/auth/me): setUser(response.data.user), or
\* the Firebase user data; then setLoading(false)
CbMe(i, outcome) ==
  /\ cbs[i].pc = "me"
  /\ cbs' = [cbs EXCEPT ![i].pc = "done"]
  /\ store' = SetLoading(
       SetUser(store, cbs[i].user, IF outcome = "success" THEN "backend" ELSE "firebase"),
       FALSE)
  /\ UNCHANGED <<frontRest, fbUser>>

NextSync ==
  \/ Mount
  \/ \E i \in ChangeIds, new \in FirebaseStates : AuthStateChanged(i, new)
  \/ \E i \in ChangeIds, ok \in BOOLEAN : CbToken(i, ok)
  \/ \E i \in ChangeIds, outcome \in MeOutcomes : CbMe(i, outcome)

SpecSync == Init /\ [][NextSync]_vars

\* every invoked callback has run to its end
AllCallbacksFinished ==
  /\ cbs[1].pc = "done"
  /\ \A i \in ChangeIds : cbs[i].pc \in {"idle", "done"}

\* C24: once all callbacks of useAuthSync have finished, the store's user and
\* isAuthenticated are those of the most recent Firebase auth state (signed out:
\* user null, isAuthenticated false) and isLoading is false.
C24_StoreFollowsFirebase ==
  AllCallbacksFinished =>
    /\ store.user = fbUser
    /\ store.isAuthenticated = (fbUser # "none")
    /\ ~store.isLoading

\* ================================================================
\* The Socket.io server
\* ================================================================

\* socket.handshake.auth.token: none, a token verifyIdToken rejects, or a user's
\* ID token
HandshakeTokens == {"none", "bad", "tok-u1", "tok-u2"}

\* decodedToken.uid of a user's ID token
TokenUid(token) ==
  CASE token = "tok-u1" -> "u1"
    [] token = "tok-u2" -> "u2"
    [] OTHER -> "-"

\* arguments of join:challenge / leave:challenge: a challenge id, or the name of a
\* personal room
RoomArgs == {"c1", "user:u1"}

PersonalEvents == {"notification:new", "badge:earned", "points:awarded"}

sockRest == <<gamVars, boardVars, regVars, httpVars, routeVars, frontVars, order,
              firstBonuses>>

\* `user:${uid}`
UserRoom(uid) == "user:" \o uid

\* a bug: the argument itself is taken as the room name
ChallengeRoom_Raw(arg) == arg

\* `challenge:${challengeId}`
ChallengeRoom(arg) == "challenge:" \o arg

\* io.use: `if (!token) return next(new Error(...))`, else verifyIdToken is awaited
SockConnect(k, token) ==
  /\ sock[k].pc = "closed"
  /\ sock' = [sock EXCEPT ![k] =
       IF token = "none"
         THEN [NoSocket EXCEPT !.pc = "rejected"]
         ELSE [NoSocket EXCEPT !.pc = "handshake", !.token = token]]
  /\ delivered' = NoEmit
  /\ UNCHANGED sockRest

\* verifyIdToken returned or threw: next(new Error('Authentication failed')), or
\* socket.data.user is set and the connection handler joins the personal room
SockVerified(k, ok) ==
  /\ sock[k].pc = "handshake"
  /\ sock' = [sock EXCEPT ![k] =
       LET q == sock[k]
           uid == TokenUid(q.token) IN
       IF ok /\ uid # "-"
         THEN [q EXCEPT !.pc = "connected", !.uid = uid, !.rooms = {UserRoom(uid)}]
         ELSE [NoSocket EXCEPT !.pc = "rejected"]]
  /\ delivered' = NoEmit
  /\ UNCHANGED sockRest

\* socket.on('join:challenge', (challengeId) => socket.join(`challenge:${challengeId}`))
JoinChallenge(k, arg) ==
  /\ sock[k].pc = "connected"
  /\ sock' = [sock EXCEPT ![k].rooms = @ \cup {ChallengeRoom(arg)}]
  /\ delivered' = NoEmit
  /\ UNCHANGED sockRest

\* socket.on('leave:challenge', (challengeId) => socket.leave(`challenge:${challengeId}`))
LeaveChallenge(k, arg) ==
  /\ sock[k].pc = "connected"
  /\ sock' = [sock EXCEPT ![k].rooms = @ \ {ChallengeRoom(arg)}]
  /\ delivered' = NoEmit
  /\ UNCHANGED sockRest

\* socket.on('join:leaderboard', () => socket.join('leaderboard:global'))
JoinLeaderboard(k) ==
  /\ sock[k].pc = "connected"
  /\ sock' = [sock EXCEPT ![k].rooms = @ \cup {"leaderboard:global"}]
  /\ delivered' = NoEmit
  /\ UNCHANGED sockRest

\* socket.on('leave:leaderboard', () => socket.leave('leaderboard:global'))
LeaveLeaderboard(k) ==
  /\ sock[k].pc = "connected"
  /\ sock' = [sock EXCEPT ![k].rooms = @ \ {"leaderboard:global"}]
  /\ delivered' = NoEmit
  /\ UNCHANGED sockRest

\* the socket disconnects, or a rejected client gives up: the slot can connect anew
Disconnect(k) ==
  /\ sock[k].pc \in {"connected", "rejected"}
  /\ sock' = [sock EXCEPT ![k] = NoSocket]
  /\ delivered' = NoEmit
  /\ UNCHANGED sockRest

\* io.to(room).emit(event, ...): the event reaches the connected sockets in the room
EmitTo(event, room, user) ==
  /\ delivered' =
       [event |-> event, room |-> room, user |-> user,
        to |-> {[id |-> k, uid |-> sock[k].uid, token |-> sock[k].token] :
                  k \in {j \in SockIds : sock[j].pc = "connected" /\ room \in sock[j].rooms}}]
  /\ UNCHANGED <<sockRest, sock>>

\* emitNotification / emitBadgeEarned / emitPointsAwarded(userId, ...)
EmitPersonal(event, u) == EmitTo(event, UserRoom(u), u)

\* emitChallengeUpdate / emitNewSubmission(challengeId, ...)
EmitChallenge(event, arg) == EmitTo(event, ChallengeRoom(arg), "-")

\* emitLeaderboardUpdate(leaderboard)
EmitLeaderboard == EmitTo("leaderboard:update", "leaderboard:global", "-")

NextSocket ==
  \/ \E k \in SockIds, token \in HandshakeTokens : SockConnect(k, token)
  \/ \E k \in SockIds, ok \in BOOLEAN : SockVerified(k, ok)
  \/ \E k \in SockIds, arg \in RoomArgs : JoinChallenge(k, arg)
  \/ \E k \in SockIds, arg \in RoomArgs : LeaveChallenge(k, arg)
  \/ \E k \in SockIds : JoinLeaderboard(k)
  \/ \E k \in SockIds : LeaveLeaderboard(k)
  \/ \E k \in SockIds : Disconnect(k)
  \/ \E event \in PersonalEvents, u \in Users : EmitPersonal(event, u)
  \/ \E event \in {"challenge:update", "submission:new"}, arg \in RoomArgs :
       EmitChallenge(event, arg)
  \/ EmitLeaderboard

\* the server has started: no socket yet
InitSocket == Init /\ redisOn /\ subs["u1"] = NoSubs

SpecSocket == InitSocket /\ [][NextSocket]_vars

\* C30: personal events are private: a notification:new, badge:earned or
\* points:awarded event emitted for user U reaches only sockets whose handshake
\* token verified as uid U, whatever rooms the sockets asked to join or leave, and
\* every connected socket carries a verified token and sits in its own personal
\* room only.
C30_PersonalEventsPrivate ==
  /\ delivered.event \in PersonalEvents =>
       \A r \in delivered.to : r.uid = delivered.user /\ TokenUid(r.token) = delivered.user
  /\ \A k \in SockIds :
       sock[k].pc = "connected" =>
         /\ sock[k].uid \in Users
         /\ TokenUid(sock[k].token) = sock[k].uid
         /\ \A u \in Users : UserRoom(u) \in sock[k].rooms <=> u = sock[k].uid

\* C30 witness: points:awarded for u1 reached the socket of u1 and not the
\* connected socket of u2, which had asked to join "user:u1" through join:challenge.
C30_Witness ==
  /\ delivered.event = "points:awarded"
  /\ delivered.user = "u1"
  /\ delivered.to # {}
  /\ \E k \in SockIds :
       /\ sock[k].pc = "connected"
       /\ sock[k].uid = "u2"
       /\ ChallengeRoom("user:u1") \in sock[k].rooms
       /\ \A r \in delivered.to : r.id # k

====
